---- MODULE Spec2Model ----
(***************************************************************************)
(* Model of the face-tracking render pipeline of huanlian:                 *)
(*   - MediaPipeService (singleton): initialize / detectFace / segmentImage *)
(*   - CameraProcessor: renderLoop, hold policy, drawComposition            *)
(*   - AvatarOverlay / AvatarModel: the useFrame tick of the 3D overlay     *)
(*   - computeFaceBox: the face-box deriver                                 *)
(* Numbers: normalized coordinates are tenths (CoordScale), padding and    *)
(* shift fractions are hundredths (PadScale), pixel results are exact      *)
(* rationals over BoxScale.  Milliseconds are integers.                    *)
(***************************************************************************)
EXTENDS Integers, Sequences, FiniteSets, TLC

(* ---------------------------- bounds ----------------------------------- *)
MaxTime == 1500
MaxVideoTime == 1
MaxMounts == 2
MaxPending == 1
MaxLandmarks == 2
MaxTicks == 3
MaxFrames == 2
MaxSignals == 3
MaxCamTime == 3000
MaxSmoothSteps == 40
MaxShowFrames == 2

(* Clock increments between callbacks (ms): they compose to the gaps       *)
(* 600 / 601 around faceHoldMs and 1499 / 1500 around faceBoxHoldMs.       *)
TimeSteps == {600, 601, 899}

(* ------------------------- program constants --------------------------- *)
faceHoldMs == 600
faceBoxHoldMs == 1500
restartWindowMs == 1500
rotationSmoothing == 12
positionSmoothing == 12
scaleSmoothing == 10
blendshapeSmoothing == 25
eyeLookSmoothing == 15
eyeLookScale == 40
avatarPadX == 28
avatarPadY == 55
avatarShiftY == 45
avatarOffsetY == 8
compPadX == 20
compPadY == 40
compShiftY == 30
MatrixLen == 16

(* ------------------------- number encodings ---------------------------- *)
CoordScale == 10
PadScale == 100
BoxScale == CoordScale * PadScale * PadScale
NaN == 99999
Infinity == 88888

Null == <<>>
Some(x) == <<x>>
IsNull(r) == r = <<>>
Val(r) == r[1]

VARIABLES
    (* MediaPipeService singleton *)
    faceLandmarker, imageSegmenter, svcIsInitializing, initCalls,
    (* CameraProcessor component *)
    mounted, epoch, isInitializing, initError,
    enableFaceSwap, enable3DAvatar, enableBackgroundReplace, mirrorCamera,
    has3DInitialized, backgroundImage, faceOverlayImage,
    faceSnapshotRef, lastFaceResultTimeRef, lastVideoTimeRef,
    frameSizeRef, faceBoxRef, canvasSize, canvas,
    (* environment: clock, video element, document, pending callbacks *)
    now, videoReady, videoSize, videoTime, docVisible, segQueue,
    (* history of the render loop *)
    lastFrame, detectedTimes, segmentedTimes,
    (* AvatarModel refs *)
    lastFaceBoxRef, lastFaceBoxTimeRef, groupVisible,
    hasPositionRef, smoothPositionRef, smoothScaleRef,
    hasRotationRef, targetQuatRef, smoothQuatRef, groupQuat,
    blendshapeStateRef, morphInfluences, lastTick,
    (* computeFaceBox harness *)
    fbArgs, fbResult,
    (* number of overlay ticks counted by the 3D-pose specification *)
    tickCount,
    (* initialize(): the delegate list of the call in flight, and the      *)
    (* record of the last createWithDelegates call                         *)
    delegates, lastCreate,
    (* RenderTick of the 3D overlay: live 16 ms interval timers, and the   *)
    (* demand frames requested by invalidate() and not yet rendered        *)
    intervals, frames,
    (* buildFaceSnapshot harness *)
    bsArgs, bsResult,
    (* useCamera: the hook's mount state, streamRef, the streams whose     *)
    (* tracks run, getUserMedia requests in flight, streams handed out,    *)
    (* lastRestartAtRef, Date.now(), the error state, resume signals seen  *)
    hookMounted, streamRef, liveStreams, requests, streamCount,
    lastRestartAtRef, dateNow, cameraError, signals,
    (* smoothing harness: the fixed targets and frame interval of a run of *)
    (* overlay frames, with the pose it started from and the frames so far *)
    smoothRun,
    (* drawComposition: the offscreen canvases behind maskCanvasRef and    *)
    (* personCanvasRef, the createElement calls made for each, and what    *)
    (* the last pair of ensureCanvas calls found, was asked and wrote      *)
    maskCanvasRef, personCanvasRef, canvasesCreated, lastEnsure,
    (* the overlay's ticks so far, for the specification that follows the  *)
    (* avatar through being hidden and shown: what each tick did           *)
    tickLog,
    (* Electron main process (part_003 105-423): the module's variables,   *)
    (* the settings file, the timers pending in the event loop, the open   *)
    (* windows, and what the last handler did                              *)
    host

svcVars == <<faceLandmarker, imageSegmenter, svcIsInitializing, initCalls>>
flagVars == <<enableFaceSwap, enable3DAvatar, enableBackgroundReplace, mirrorCamera,
              has3DInitialized, backgroundImage, faceOverlayImage>>
cpVars == <<mounted, epoch, isInitializing, initError>>
loopVars == <<faceSnapshotRef, lastFaceResultTimeRef, lastVideoTimeRef,
              frameSizeRef, faceBoxRef, canvasSize, canvas, segQueue,
              lastFrame, detectedTimes, segmentedTimes>>
envVars == <<now, videoReady, videoSize, videoTime, docVisible>>
avatarVars == <<lastFaceBoxRef, lastFaceBoxTimeRef, groupVisible,
                hasPositionRef, smoothPositionRef, smoothScaleRef,
                hasRotationRef, targetQuatRef, smoothQuatRef, groupQuat,
                blendshapeStateRef, morphInfluences, lastTick>>
delegVars == <<delegates, lastCreate>>
renderTickVars == <<intervals, frames>>
builderVars == <<bsArgs, bsResult>>
cameraVars == <<hookMounted, streamRef, liveStreams, requests, streamCount,
                lastRestartAtRef, dateNow, cameraError, signals>>
smoothVars == <<smoothRun>>
bufferVars == <<maskCanvasRef, personCanvasRef, canvasesCreated, lastEnsure>>
logVars == <<tickLog>>
hostVars == <<host>>
otherSideVars == <<builderVars, cameraVars, smoothVars, bufferVars, logVars, hostVars>>
sideVars == <<renderTickVars, otherSideVars>>
boxVars == <<fbArgs, fbResult, tickCount, delegVars, sideVars>>
vars == <<svcVars, flagVars, cpVars, loopVars, envVars, avatarVars, boxVars>>

(* ------------------------- arithmetic helpers -------------------------- *)
Abs(a) == IF a < 0 THEN -a ELSE a
TruncDiv(a, b) == IF a >= 0 THEN a \div b ELSE -((-a) \div b)
MaxOf(a, b) == IF a > b THEN a ELSE b
MinOf(a, b) == IF a < b THEN a ELSE b
IsFinite(v) == v \notin {NaN, Infinity, -Infinity}

(* ======================= utils/face: computeFaceBox ==================== *)
(* One pass of the for-loop: acc = [minX, minY, maxX, maxY].               *)
ScanStep(acc, pt) ==
    [minX |-> IF pt.x < acc.minX THEN pt.x ELSE acc.minX,
     minY |-> IF pt.y < acc.minY THEN pt.y ELSE acc.minY,
     maxX |-> IF pt.x > acc.maxX THEN pt.x ELSE acc.maxX,
     maxY |-> IF pt.y > acc.maxY THEN pt.y ELSE acc.maxY]

(* Mutant: the minimum scan seeded with 0.                                 *)
ScanInitZero == [minX |-> 0, minY |-> 0, maxX |-> 0, maxY |-> 0]

ScanInit == [minX |-> 1 * CoordScale, minY |-> 1 * CoordScale, maxX |-> 0, maxY |-> 0]

RECURSIVE ScanLandmarks(_, _, _)
ScanLandmarks(landmarks, i, acc) ==
    IF i > Len(landmarks) THEN acc
    ELSE ScanLandmarks(landmarks, i + 1, ScanStep(acc, landmarks[i]))

(* Mutants of computeFaceBox: the mirrored extents not swapped, and the    *)
(* vertical padding split evenly instead of by yShift.                     *)
computeFaceBoxNoSwap(landmarks, frameWidth, frameHeight, padX, padY, yShift, mirrorX) ==
    LET e == ScanLandmarks(landmarks, 1, ScanInit)
        boxMinX == IF mirrorX THEN 1 * CoordScale - e.minX ELSE e.minX
        boxMaxX == IF mirrorX THEN 1 * CoordScale - e.maxX ELSE e.maxX
        baseX == boxMinX * frameWidth
        baseY == e.minY * frameHeight
        width == (boxMaxX - boxMinX) * frameWidth
        height == (e.maxY - e.minY) * frameHeight
        padXSize == width * padX
        padYSize == height * padY
    IN  [x |-> baseX * PadScale * PadScale - padXSize * (PadScale \div 2),
         y |-> baseY * PadScale * PadScale - padYSize * yShift,
         width |-> width * PadScale * PadScale + padXSize * PadScale,
         height |-> height * PadScale * PadScale + padYSize * PadScale]

computeFaceBoxEvenPad(landmarks, frameWidth, frameHeight, padX, padY, yShift, mirrorX) ==
    LET e == ScanLandmarks(landmarks, 1, ScanInit)
        boxMinX == IF mirrorX THEN 1 * CoordScale - e.maxX ELSE e.minX
        boxMaxX == IF mirrorX THEN 1 * CoordScale - e.minX ELSE e.maxX
        baseX == boxMinX * frameWidth
        baseY == e.minY * frameHeight
        width == (boxMaxX - boxMinX) * frameWidth
        height == (e.maxY - e.minY) * frameHeight
        padXSize == width * padX
        padYSize == height * padY
    IN  [x |-> baseX * PadScale * PadScale - padXSize * (PadScale \div 2),
         y |-> baseY * PadScale * PadScale - padYSize * (PadScale \div 2),
         width |-> width * PadScale * PadScale + padXSize * PadScale,
         height |-> height * PadScale * PadScale + padYSize * PadScale]

(* Result in units of 1/BoxScale pixel.                                    *)
computeFaceBox(landmarks, frameWidth, frameHeight, padX, padY, yShift, mirrorX) ==
    LET e == ScanLandmarks(landmarks, 1, ScanInit)
        boxMinX == IF mirrorX THEN 1 * CoordScale - e.maxX ELSE e.minX
        boxMaxX == IF mirrorX THEN 1 * CoordScale - e.minX ELSE e.maxX
        baseX == boxMinX * frameWidth
        baseY == e.minY * frameHeight
        width == (boxMaxX - boxMinX) * frameWidth
        height == (e.maxY - e.minY) * frameHeight
        padXSize == width * padX
        padYSize == height * padY
    IN  [x |-> baseX * PadScale * PadScale - padXSize * (PadScale \div 2),
         y |-> baseY * PadScale * PadScale - padYSize * yShift,
         width |-> width * PadScale * PadScale + padXSize * PadScale,
         height |-> height * PadScale * PadScale + padYSize * PadScale]

(* =================== CameraProcessor: buildFaceSnapshot ================ *)
(* A raw result: faceLandmarks is a sequence of faces (each a sequence of  *)
(* points); matrixes / blendshapes are Null (absent) or Some(sequence).    *)
(* A raw matrix is [isArray, hasData, elems]: a flat list, or a wrapper    *)
(* object whose numeric buffer is elems.                                   *)
RawData(rawMatrix) ==
    IF rawMatrix.isArray THEN Some(rawMatrix.elems)
    ELSE IF rawMatrix.hasData THEN Some(rawMatrix.elems)
    ELSE Null

(* Mutant: a snapshot builder that takes a matrix only from more than 16   *)
(* components.                                                             *)
buildFaceSnapshotLong(result, timestamp) ==
    IF Len(result.faceLandmarks) = 0 THEN Null
    ELSE
      LET landmarks == [i \in 1..Len(result.faceLandmarks[1]) |->
                           [x |-> result.faceLandmarks[1][i].x,
                            y |-> result.faceLandmarks[1][i].y]]
          rawData == IF IsNull(result.matrixes) \/ Len(Val(result.matrixes)) = 0
                     THEN Null
                     ELSE RawData(Val(result.matrixes)[1])
          matrix == IF ~IsNull(rawData) /\ Len(Val(rawData)) > MatrixLen
                    THEN Some(SubSeq(Val(rawData), 1, MatrixLen))
                    ELSE Null
          blendshapes == IF IsNull(result.blendshapes) \/ Len(Val(result.blendshapes)) = 0
                         THEN Null
                         ELSE Some([i \in 1..Len(Val(result.blendshapes)[1]) |->
                                      [name |-> Val(result.blendshapes)[1][i].name,
                                       score |-> Val(result.blendshapes)[1][i].score]])
      IN Some([landmarks |-> landmarks, matrix |-> matrix,
               blendshapes |-> blendshapes, timestamp |-> timestamp])

buildFaceSnapshot(result, timestamp) ==
    IF Len(result.faceLandmarks) = 0 THEN Null
    ELSE
      LET landmarks == [i \in 1..Len(result.faceLandmarks[1]) |->
                           [x |-> result.faceLandmarks[1][i].x,
                            y |-> result.faceLandmarks[1][i].y]]
          rawData == IF IsNull(result.matrixes) \/ Len(Val(result.matrixes)) = 0
                     THEN Null
                     ELSE RawData(Val(result.matrixes)[1])
          matrix == IF ~IsNull(rawData) /\ Len(Val(rawData)) >= MatrixLen
                    THEN Some(SubSeq(Val(rawData), 1, MatrixLen))
                    ELSE Null
          blendshapes == IF IsNull(result.blendshapes) \/ Len(Val(result.blendshapes)) = 0
                         THEN Null
                         ELSE Some([i \in 1..Len(Val(result.blendshapes)[1]) |->
                                      [name |-> Val(result.blendshapes)[1][i].name,
                                       score |-> Val(result.blendshapes)[1][i].score]])
      IN Some([landmarks |-> landmarks, matrix |-> matrix,
               blendshapes |-> blendshapes, timestamp |-> timestamp])

(* ======================= MediaPipeService ============================== *)
(* detectFace: none while the landmarker is missing, else the detector's   *)
(* result for this frame.                                                  *)
detectFace(det) == IF ~faceLandmarker THEN Null ELSE Some(det)


(* segmentImage: the callback is registered only when the segmenter exists *)
segmentImageAccepts == imageSegmenter

(* ==================== CameraProcessor: drawComposition ================= *)
(* p: the props captured by the closure (flags and uploaded images).       *)
(* segmentation: Null or Some([confidenceMasks |-> n, categoryMask |-> b]).*)
HasMask(segmentation) ==
    /\ ~IsNull(segmentation)
    /\ (Val(segmentation).confidenceMasks > 0 \/ Val(segmentation).categoryMask)

(* Mutant: the mirror transform applied whatever the setting.              *)
MirrorOpsAlways(p) == <<"scale(-1,1)", "translate(-width,0)">>

MirrorOps(p) == IF p.mirror THEN <<"scale(-1,1)", "translate(-width,0)">> ELSE <<>>

(* Mutant: nothing drawn when an offscreen context is missing.             *)
BackgroundOpsNoFallback(p, segmentation, ctxOk) ==
    IF p.ebg /\ HasMask(segmentation)
    THEN (IF ctxOk
          THEN <<IF Val(segmentation).confidenceMasks > 0
                 THEN "mask:confidence" ELSE "mask:category">>
               \o (IF p.bgImg THEN <<"drawImage:backgroundImage">>
                   ELSE <<"save", "filter:blur", "drawImage:video", "restore">>)
               \o <<"person:clearRect", "person:drawImage:video",
                    "person:destination-in:mask", "person:source-over",
                    "drawImage:personCanvas">>
          ELSE <<>>)
         \o <<"segmentation.close">>
    ELSE <<"drawImage:video">>

BackgroundOps(p, segmentation, ctxOk) ==
    IF p.ebg /\ HasMask(segmentation)
    THEN (IF ctxOk
          THEN <<IF Val(segmentation).confidenceMasks > 0
                 THEN "mask:confidence" ELSE "mask:category">>
               \o (IF p.bgImg THEN <<"drawImage:backgroundImage">>
                   ELSE <<"save", "filter:blur", "drawImage:video", "restore">>)
               \o <<"person:clearRect", "person:drawImage:video",
                    "person:destination-in:mask", "person:source-over",
                    "drawImage:personCanvas">>
          ELSE <<"drawImage:video">>)
         \o <<"segmentation.close">>
    ELSE <<"drawImage:video">>

(* Mutant: the face box derived from any snapshot, landmarks or not.       *)
compositionFaceBoxAny(p, snapshot, size) ==
    IF ~IsNull(snapshot)
    THEN Some(computeFaceBox(Val(snapshot).landmarks, size.width, size.height,
                             compPadX, compPadY, compShiftY, p.mirror))
    ELSE Null

compositionFaceBox(p, snapshot, size) ==
    IF ~IsNull(snapshot) /\ Len(Val(snapshot).landmarks) > 0
    THEN Some(computeFaceBox(Val(snapshot).landmarks, size.width, size.height,
                             compPadX, compPadY, compShiftY, p.mirror))
    ELSE Null

(* Mutant: the face layer drawn whether or not the 2D overlay is enabled.  *)
FaceOpsAlways(p, snapshot, faceBox) ==
    IF ~IsNull(faceBox)
    THEN IF p.faceImg THEN <<"drawImage:faceOverlay">>
         ELSE IF ~IsNull(snapshot)
              THEN [i \in 1..Len(Val(snapshot).landmarks) |-> "arc"]
              ELSE <<>>
    ELSE <<>>

FaceOps(p, snapshot, faceBox) ==
    IF p.efs /\ ~IsNull(faceBox)
    THEN IF p.faceImg THEN <<"drawImage:faceOverlay">>
         ELSE IF ~IsNull(snapshot)
              THEN [i \in 1..Len(Val(snapshot).landmarks) |-> "arc"]
              ELSE <<>>
    ELSE <<>>

(* Mutant: the face layer drawn before the background layer.               *)
drawCompositionFaceFirst(p, segmentation, snapshot, ctxOk, frame, size) ==
    LET faceBox == compositionFaceBox(p, snapshot, size)
    IN [ops |-> <<"save", "clearRect">> \o MirrorOps(p)
                 \o FaceOps(p, snapshot, faceBox)
                 \o BackgroundOps(p, segmentation, ctxOk)
                 \o <<"restore">>,
        snapshot |-> snapshot,
        faceBox |-> faceBox,
        frame |-> Some(frame),
        liveVideoTime |-> videoTime]

(* The canvas after one composition pass, and the face box it stores.      *)
drawComposition(p, segmentation, snapshot, ctxOk, frame, size) ==
    LET faceBox == compositionFaceBox(p, snapshot, size)
    IN [ops |-> <<"save", "clearRect">> \o MirrorOps(p)
                 \o BackgroundOps(p, segmentation, ctxOk)
                 \o FaceOps(p, snapshot, faceBox)
                 \o <<"restore">>,
        snapshot |-> snapshot,
        faceBox |-> faceBox,
        frame |-> Some(frame),
        liveVideoTime |-> videoTime]

BlankCanvas == [ops |-> <<>>, snapshot |-> Null, faceBox |-> Null,
                frame |-> Null, liveVideoTime |-> -1]
FilledCanvas == [ops |-> <<"fillRect:#111">>, snapshot |-> Null, faceBox |-> Null,
                 frame |-> Null, liveVideoTime |-> -1]

(* ====================== CameraProcessor: renderLoop ==================== *)
(* Mutant: a render loop whose closure keeps segmentation switched on.     *)
PropsSegAlways ==
    [efs |-> enableFaceSwap, e3d |-> enable3DAvatar, ebg |-> TRUE,
     mirror |-> mirrorCamera, bgImg |-> backgroundImage, faceImg |-> faceOverlayImage,
     init |-> isInitializing, err |-> initError]

Props == [efs |-> enableFaceSwap, e3d |-> enable3DAvatar, ebg |-> enableBackgroundReplace,
          mirror |-> mirrorCamera, bgImg |-> backgroundImage, faceImg |-> faceOverlayImage,
          init |-> isInitializing, err |-> initError]

(* Mutants of the hold policy: the window compared with >=, the clear     *)
(* step not suppressed in 3D mode, and a new snapshot stored only into an  *)
(* empty slot.                                                             *)
HoldPolicyKeepOld(p, snapshot, startTimeMs) ==
    IF ~IsNull(snapshot) /\ IsNull(faceSnapshotRef) THEN snapshot
    ELSE IF ~IsNull(faceSnapshotRef) /\ ~p.e3d
            /\ startTimeMs - lastFaceResultTimeRef > faceHoldMs
         THEN Null
         ELSE faceSnapshotRef

HoldPolicyGe(p, snapshot, startTimeMs) ==
    IF ~IsNull(snapshot) THEN snapshot
    ELSE IF ~IsNull(faceSnapshotRef) /\ ~p.e3d
            /\ startTimeMs - lastFaceResultTimeRef >= faceHoldMs
         THEN Null
         ELSE faceSnapshotRef

HoldPolicyNo3D(p, snapshot, startTimeMs) ==
    IF ~IsNull(snapshot) THEN snapshot
    ELSE IF ~IsNull(faceSnapshotRef)
            /\ startTimeMs - lastFaceResultTimeRef > faceHoldMs
         THEN Null
         ELSE faceSnapshotRef

(* Hold policy, CameraProcessor.tsx 359-370: the slot after this frame.    *)
HoldPolicy(p, snapshot, startTimeMs) ==
    IF ~IsNull(snapshot) THEN snapshot
    ELSE IF ~IsNull(faceSnapshotRef) /\ ~p.e3d
            /\ startTimeMs - lastFaceResultTimeRef > faceHoldMs
         THEN Null
         ELSE faceSnapshotRef

ResizedCanvas ==
    IF videoSize.width > 0 /\ videoSize.height > 0
       /\ (canvasSize.width # videoSize.width \/ canvasSize.height # videoSize.height)
    THEN videoSize ELSE canvasSize

(* Mutant: every display callback processes the frame.                    *)
IsNewFrameAlways == TRUE

(* CameraProcessor.tsx 350: the source frame advanced since the last draw *)
IsNewFrame == videoTime # lastVideoTimeRef

(* One call of renderLoop with the props p of the render that created it  *)
(* and the detector's answer det for this frame.                          *)
RenderLoopBody(p, det) ==
    IF videoReady /\ ~p.init /\ ~p.err
    THEN
      /\ canvasSize' = ResizedCanvas
      /\ frameSizeRef' = ResizedCanvas
      /\ IF IsNewFrame
         THEN LET startTimeMs == now
                  detects == p.efs \/ p.e3d
                  faceResult == IF detects THEN detectFace(det) ELSE Null
                  snapshot == IF ~IsNull(faceResult)
                              THEN buildFaceSnapshot(Val(faceResult), startTimeMs)
                              ELSE Null
                  activeSnapshot == HoldPolicy(p, snapshot, startTimeMs)
                  frame == [videoTime |-> videoTime, time |-> startTimeMs]
                  queued == p.ebg /\ segmentImageAccepts
              IN /\ p.ebg /\ segmentImageAccepts => Len(segQueue) < MaxPending
                 /\ lastVideoTimeRef' = videoTime
                 /\ faceSnapshotRef' = activeSnapshot
                 /\ lastFaceResultTimeRef' =
                      IF ~IsNull(snapshot) THEN startTimeMs ELSE lastFaceResultTimeRef
                 /\ IF p.ebg
                    THEN /\ segQueue' = IF segmentImageAccepts
                                        THEN Append(segQueue,
                                               [p |-> p, snapshot |-> activeSnapshot,
                                                frame |-> frame, epoch |-> epoch])
                                        ELSE segQueue
                         /\ UNCHANGED <<canvas, faceBoxRef>>
                    ELSE /\ canvas' = drawComposition(p, Null, activeSnapshot, TRUE,
                                                      frame, ResizedCanvas)
                         /\ faceBoxRef' = canvas'.faceBox
                         /\ UNCHANGED segQueue
                 /\ lastFrame' = Some([frame |-> frame, detected |-> detects,
                                       segmented |-> p.ebg, queued |-> queued,
                                       yielded |-> ~IsNull(snapshot),
                                       e3d |-> p.e3d,
                                       redetected |-> detects /\ videoTime \in detectedTimes,
                                       resegmented |-> queued /\ videoTime \in segmentedTimes])
                 /\ detectedTimes' = IF detects THEN detectedTimes \cup {videoTime}
                                     ELSE detectedTimes
                 /\ segmentedTimes' = IF queued THEN segmentedTimes \cup {videoTime}
                                      ELSE segmentedTimes
         ELSE UNCHANGED <<lastVideoTimeRef, faceSnapshotRef, lastFaceResultTimeRef,
                          segQueue, canvas, faceBoxRef, lastFrame,
                          detectedTimes, segmentedTimes>>
    ELSE
      /\ canvas' = IF p.init THEN FilledCanvas ELSE canvas
      /\ UNCHANGED <<canvasSize, frameSizeRef, lastVideoTimeRef, faceSnapshotRef,
                     lastFaceResultTimeRef, segQueue, faceBoxRef, lastFrame,
                     detectedTimes, segmentedTimes>>


(* =================== AvatarOverlay: AvatarModel.useFrame =============== *)
PosScale == 100
WeightScale == PadScale * PadScale
ViewSize == [width |-> 1280, height |-> 960]
headScale == 115
MorphTargetDictionary == {"jawOpen", "eyeLookInLeft"}
StartsWithEyeLook(name) == name \in {"eyeLookInLeft", "eyeLookOutRight"}

(* 1000 * e^(-x) for x = k * delta (x in thousandths), rounded.            *)
ExpDecayPermille(x) ==
    CASE x = 0 -> 1000
      [] x = 160 -> 852
      [] x = 192 -> 825
      [] x = 1000 -> 368
      [] x = 1200 -> 301

(* Mutant: the decay added to the factor instead of subtracted.            *)
SmoothingAlphaOver(k, delta) == 1000 + ExpDecayPermille(k * delta)

(* 1 - Math.exp(-k * delta), in thousandths; delta in milliseconds.        *)
SmoothingAlpha(k, delta) == 1000 - ExpDecayPermille(k * delta)

(* THREE.MathUtils.lerp / Vector3.lerp with t in thousandths.              *)
Lerp(a, b, t) == a + TruncDiv((b - a) * t, 1000)

LerpPos(a, b, t) == [x |-> Lerp(a.x, b.x, t), y |-> Lerp(a.y, b.y, t)]

(* Rotations are rotations about the view axis, held as an angle in        *)
(* degrees; a 4x4 column-major matrix of that family carries the angle in  *)
(* the signs of its first column, whatever its scale and translation.      *)
extractRotation(m) ==
    CASE m[1] > 0 /\ m[2] = 0 -> 0
      [] m[1] = 0 /\ m[2] > 0 -> 90
      [] m[1] < 0 /\ m[2] = 0 -> 180
      [] m[1] = 0 /\ m[2] < 0 -> 270
      [] OTHER -> 0

(* premultiply(mirror).multiply(mirror) with mirror = scale(-1, 1, 1)      *)
MirrorConjugate(angle) == (360 - angle) % 360

(* Quaternion.slerp along the shorter arc, t in thousandths.               *)
ShortArc(from, to) == 180 - ((180 - (to - from)) % 360)
Slerp(q, target, t) == (q + TruncDiv(ShortArc(q, target) * t, 1000)) % 360

(* Mutant: the finiteness test stops one component short.                  *)
HasValidMatrixShort(snapshot) ==
    /\ ~IsNull(snapshot)
    /\ ~IsNull(Val(snapshot).matrix)
    /\ Len(Val(Val(snapshot).matrix)) >= MatrixLen
    /\ \A idx \in 1..(MatrixLen - 1) : IsFinite(Val(Val(snapshot).matrix)[idx])

HasValidMatrix(snapshot) ==
    /\ ~IsNull(snapshot)
    /\ ~IsNull(Val(snapshot).matrix)
    /\ Len(Val(Val(snapshot).matrix)) >= MatrixLen
    /\ \A idx \in 1..MatrixLen : IsFinite(Val(Val(snapshot).matrix)[idx])

latestFaceBoxOf(snapshot, frame, mirror) ==
    IF ~IsNull(snapshot) /\ Len(Val(snapshot).landmarks) > 0
       /\ frame.width # 0 /\ frame.height # 0
    THEN Some(computeFaceBox(Val(snapshot).landmarks, frame.width, frame.height,
                             avatarPadX, avatarPadY, avatarShiftY, mirror))
    ELSE Null

(* Mutants of the face-box hold: the window compared with <=, and the    *)
(* last known box never used.                                              *)
HeldFaceBoxLe(latestFaceBox) ==
    IF ~IsNull(latestFaceBox) THEN latestFaceBox
    ELSE IF ~IsNull(lastFaceBoxRef) /\ now - lastFaceBoxTimeRef <= faceBoxHoldMs
         THEN lastFaceBoxRef
         ELSE Null

HeldFaceBoxExpiring(latestFaceBox) ==
    IF ~IsNull(latestFaceBox) /\ now - lastFaceResultTimeRef < faceBoxHoldMs
    THEN latestFaceBox
    ELSE IF ~IsNull(lastFaceBoxRef) /\ now - lastFaceBoxTimeRef < faceBoxHoldMs
         THEN lastFaceBoxRef
         ELSE Null

(* AvatarOverlay.tsx 163-167: the box this tick works with.                *)
HeldFaceBox(latestFaceBox) ==
    IF ~IsNull(latestFaceBox) THEN latestFaceBox
    ELSE IF ~IsNull(lastFaceBoxRef) /\ now - lastFaceBoxTimeRef < faceBoxHoldMs
         THEN lastFaceBoxRef
         ELSE Null

ToPos(v) == TruncDiv(v, BoxScale \div PosScale)

targetPosOf(faceBox, frame) ==
    LET centerX == TruncDiv(2 * faceBox.x + faceBox.width, 2 * (BoxScale \div PosScale))
        centerY == TruncDiv(2 * faceBox.y + faceBox.height, 2 * (BoxScale \div PosScale))
        boxCenterX == TruncDiv(centerX * ViewSize.width, frame.width)
        boxCenterY == TruncDiv(centerY * ViewSize.height, frame.height)
        heightView == TruncDiv(ToPos(faceBox.height) * ViewSize.height, frame.height)
    IN [x |-> boxCenterX - (ViewSize.width * PosScale) \div 2,
        y |-> (ViewSize.height * PosScale) \div 2 - boxCenterY
              + TruncDiv(heightView * avatarOffsetY, PadScale)]

boxScaleOf(faceBox, frame) ==
    TruncDiv(MaxOf(TruncDiv(ToPos(faceBox.width) * ViewSize.width, frame.width),
                   TruncDiv(ToPos(faceBox.height) * ViewSize.height, frame.height))
             * headScale, PadScale)

(* Mutant: the first frame is interpolated like every other one.           *)
PositionUpdateLerp(targetPos, boxScale, delta) ==
    [pos |-> LerpPos(smoothPositionRef, targetPos,
                     SmoothingAlpha(positionSmoothing, delta)),
     scale |-> Lerp(smoothScaleRef, boxScale, SmoothingAlpha(scaleSmoothing, delta))]

(* AvatarOverlay.tsx 183-191 *)
PositionUpdate(targetPos, boxScale, delta) ==
    IF ~hasPositionRef
    THEN [pos |-> targetPos, scale |-> boxScale]
    ELSE [pos |-> LerpPos(smoothPositionRef, targetPos,
                          SmoothingAlpha(positionSmoothing, delta)),
          scale |-> Lerp(smoothScaleRef, boxScale, SmoothingAlpha(scaleSmoothing, delta))]

(* Mutant: the rotation copied again whenever the avatar was hidden.        *)
RotationUpdateResnap(snapshot, mirror, delta) ==
    IF HasValidMatrix(snapshot)
    THEN LET rotation == extractRotation(Val(Val(snapshot).matrix))
             targetQuat == IF mirror THEN MirrorConjugate(rotation) ELSE rotation
             smoothQuat == IF ~hasRotationRef \/ ~groupVisible THEN targetQuat
                           ELSE Slerp(smoothQuatRef, targetQuat,
                                      SmoothingAlpha(rotationSmoothing, delta))
         IN [target |-> targetQuat, smooth |-> smoothQuat, has |-> TRUE,
             group |-> smoothQuat]
    ELSE [target |-> targetQuatRef, smooth |-> smoothQuatRef, has |-> hasRotationRef,
          group |-> groupQuat]

(* AvatarOverlay.tsx 207-228 *)
RotationUpdate(snapshot, mirror, delta) ==
    IF HasValidMatrix(snapshot)
    THEN LET rotation == extractRotation(Val(Val(snapshot).matrix))
             targetQuat == IF mirror THEN MirrorConjugate(rotation) ELSE rotation
             smoothQuat == IF ~hasRotationRef THEN targetQuat
                           ELSE Slerp(smoothQuatRef, targetQuat,
                                      SmoothingAlpha(rotationSmoothing, delta))
         IN [target |-> targetQuat, smooth |-> smoothQuat, has |-> TRUE,
             group |-> smoothQuat]
    ELSE [target |-> targetQuatRef, smooth |-> smoothQuatRef, has |-> hasRotationRef,
          group |-> groupQuat]

(* Mutant: the influence written without the clamp.                       *)
BlendshapeStepNoClamp(st, shape) ==
    IF shape.name \in MorphTargetDictionary
    THEN LET isEyeLook == StartsWithEyeLook(shape.name)
             smooth == IF isEyeLook THEN eyeLookSmoothing ELSE blendshapeSmoothing
             target == IF isEyeLook THEN shape.score * eyeLookScale
                       ELSE shape.score * PadScale
             prev == IF shape.name \in DOMAIN st.state THEN st.state[shape.name] ELSE 0
             next == prev + TruncDiv((target - prev) * smooth, PadScale)
         IN [state |-> [n \in DOMAIN st.state \cup {shape.name} |->
                          IF n = shape.name THEN next ELSE st.state[n]],
             influences |-> [st.influences EXCEPT ![shape.name] = next]]
    ELSE st

(* AvatarOverlay.tsx 235-249: shapes.forEach over the list, st =           *)
(* [state, influences].                                                    *)
BlendshapeStep(st, shape) ==
    IF shape.name \in MorphTargetDictionary
    THEN LET isEyeLook == StartsWithEyeLook(shape.name)
             smooth == IF isEyeLook THEN eyeLookSmoothing ELSE blendshapeSmoothing
             target == IF isEyeLook THEN shape.score * eyeLookScale
                       ELSE shape.score * PadScale
             prev == IF shape.name \in DOMAIN st.state THEN st.state[shape.name] ELSE 0
             next == prev + TruncDiv((target - prev) * smooth, PadScale)
         IN [state |-> [n \in DOMAIN st.state \cup {shape.name} |->
                          IF n = shape.name THEN next ELSE st.state[n]],
             influences |-> [st.influences EXCEPT
                               ![shape.name] = MinOf(WeightScale, MaxOf(0, next))]]
    ELSE st

RECURSIVE BlendshapeFold(_, _, _)
BlendshapeFold(shapes, i, st) ==
    IF i > Len(shapes) THEN st
    ELSE BlendshapeFold(shapes, i + 1, BlendshapeStep(st, shapes[i]))

BlendshapeUpdate(snapshot) ==
    LET st == [state |-> blendshapeStateRef, influences |-> morphInfluences]
    IN IF ~IsNull(snapshot) /\ ~IsNull(Val(snapshot).blendshapes)
          /\ Len(Val(Val(snapshot).blendshapes)) > 0
       THEN BlendshapeFold(Val(Val(snapshot).blendshapes), 1, st)
       ELSE st

(* Mutant: a disabled tick that also forgets the smoothed pose.            *)
useFrameDisabledReset ==
    /\ groupVisible' = FALSE
    /\ lastTick' = Some([enabled |-> FALSE, derived |-> FALSE, faceBox |-> Null,
                         shown |-> FALSE, validMatrix |-> FALSE,
                         snapPos |-> FALSE, snapRot |-> FALSE,
                         targetPos |-> Null])
    /\ hasPositionRef' = FALSE
    /\ hasRotationRef' = FALSE
    /\ blendshapeStateRef' = <<>>
    /\ UNCHANGED <<lastFaceBoxRef, lastFaceBoxTimeRef,
                   smoothPositionRef, smoothScaleRef,
                   targetQuatRef, smoothQuatRef, groupQuat, morphInfluences>>

(* AvatarOverlay.tsx 138-143: the tick of a disabled overlay.              *)
useFrameDisabled ==
    /\ groupVisible' = FALSE
    /\ lastTick' = Some([enabled |-> FALSE, derived |-> FALSE, faceBox |-> Null,
                         shown |-> FALSE, validMatrix |-> FALSE,
                         snapPos |-> FALSE, snapRot |-> FALSE,
                         targetPos |-> Null])
    /\ UNCHANGED <<lastFaceBoxRef, lastFaceBoxTimeRef, hasPositionRef,
                   smoothPositionRef, smoothScaleRef, hasRotationRef,
                   targetQuatRef, smoothQuatRef, groupQuat,
                   blendshapeStateRef, morphInfluences>>

(* One useFrame callback of AvatarModel, delta ms after the previous one.  *)
useFrameBody(delta) ==
    /\ mounted /\ has3DInitialized
    /\ UNCHANGED <<svcVars, flagVars, cpVars, loopVars, envVars, fbArgs, fbResult, delegVars>>
    /\ IF ~enable3DAvatar
       THEN useFrameDisabled
       ELSE LET frame == frameSizeRef
                snapshot == faceSnapshotRef
                latestFaceBox == latestFaceBoxOf(snapshot, frame, mirrorCamera)
                faceBox == HeldFaceBox(latestFaceBox)
                shown == ~IsNull(faceBox) /\ frame.width # 0 /\ frame.height # 0
            IN /\ lastFaceBoxRef' = IF ~IsNull(latestFaceBox) THEN latestFaceBox
                                    ELSE lastFaceBoxRef
               /\ lastFaceBoxTimeRef' = IF ~IsNull(latestFaceBox) THEN now
                                        ELSE lastFaceBoxTimeRef
               /\ groupVisible' = shown
               /\ IF shown
                  THEN LET targetPos == targetPosOf(Val(faceBox), frame)
                           boxScale == boxScaleOf(Val(faceBox), frame)
                           pu == PositionUpdate(targetPos, boxScale, delta)
                           ru == RotationUpdate(snapshot, mirrorCamera, delta)
                           bu == BlendshapeUpdate(snapshot)
                       IN /\ smoothPositionRef' = pu.pos
                          /\ smoothScaleRef' = pu.scale
                          /\ hasPositionRef' = TRUE
                          /\ targetQuatRef' = ru.target
                          /\ smoothQuatRef' = ru.smooth
                          /\ hasRotationRef' = ru.has
                          /\ groupQuat' = ru.group
                          /\ blendshapeStateRef' = bu.state
                          /\ morphInfluences' = bu.influences
                          /\ lastTick' = Some([enabled |-> TRUE,
                                  derived |-> ~IsNull(latestFaceBox),
                                  faceBox |-> faceBox, shown |-> TRUE,
                                  validMatrix |-> HasValidMatrix(snapshot),
                                  snapPos |-> ~hasPositionRef,
                                  snapRot |-> HasValidMatrix(snapshot) /\ ~hasRotationRef,
                                  targetPos |-> Some([pos |-> targetPos, scale |-> boxScale])])
                  ELSE /\ lastTick' = Some([enabled |-> TRUE,
                                  derived |-> ~IsNull(latestFaceBox),
                                  faceBox |-> faceBox, shown |-> FALSE,
                                  validMatrix |-> HasValidMatrix(snapshot),
                                  snapPos |-> FALSE, snapRot |-> FALSE,
                                  targetPos |-> Null])
                       /\ UNCHANGED <<hasPositionRef, smoothPositionRef, smoothScaleRef,
                                      hasRotationRef, targetQuatRef, smoothQuatRef,
                                      groupQuat, blendshapeStateRef, morphInfluences>>

useFrame(delta) == useFrameBody(delta) /\ UNCHANGED <<tickCount, sideVars>>

(* The same callback, counted, for specifications that bound the ticks.    *)
useFrameCounted(delta) ==
    /\ tickCount < MaxTicks
    /\ tickCount' = tickCount + 1
    /\ useFrameBody(delta)
    /\ UNCHANGED sideVars


(* ============================ inputs =================================== *)
Pt(x, y) == [x |-> x, y |-> y]
NoFaceResult == [faceLandmarks |-> <<>>, matrixes |-> Null, blendshapes |-> Null]
FaceResult(landmarks, matrixes, blendshapes) ==
    [faceLandmarks |-> <<landmarks>>, matrixes |-> matrixes, blendshapes |-> blendshapes]

FaceA == <<Pt(3, 4), Pt(7, 8)>>

(* The detector's answers in the hold-policy specification.                *)
DetResultsHold == {NoFaceResult, FaceResult(FaceA, Null, Null)}

FaceB == <<Pt(2, 2), Pt(6, 9)>>

(* Column-major 4x4 matrices: a quarter turn with a translation, a half    *)
(* turn scaled by 2 inside a 17-element buffer, and non-finite entries.    *)
RotZ90 == <<0, 1, 0, 0,  -1, 0, 0, 0,  0, 0, 1, 0,  5, 6, 7, 1>>
RotZ180x2 == <<-2, 0, 0, 0,  0, -2, 0, 0,  0, 0, 2, 0,  0, 0, 0, 1,  NaN>>
NaNLast == [RotZ90 EXCEPT ![MatrixLen] = NaN]
Short15 == SubSeq(RotZ90, 1, MatrixLen - 1)
FlatList(elems) == [isArray |-> TRUE, hasData |-> FALSE, elems |-> elems]
Wrapper(elems) == [isArray |-> FALSE, hasData |-> TRUE, elems |-> elems]

ShapesA == <<[name |-> "jawOpen", score |-> 80],
             [name |-> "eyeLookInLeft", score |-> 50],
             [name |-> "tongueOut", score |-> 30]>>

(* The detector's answers in the 3D-pose specification.                    *)
DetResultsPose ==
    {NoFaceResult,
     FaceResult(FaceA, Some(<<FlatList(RotZ90)>>), Some(<<ShapesA>>)),
     FaceResult(FaceB, Some(<<Wrapper(RotZ180x2)>>), Null),
     FaceResult(FaceB, Some(<<FlatList(NaNLast)>>), Some(<<ShapesA>>)),
     FaceResult(FaceA, Some(<<FlatList(Short15)>>), Null)}

SegMasks == {[confidenceMasks |-> 1, categoryMask |-> TRUE]}
SegResults == {[confidenceMasks |-> 1, categoryMask |-> TRUE],
               [confidenceMasks |-> 0, categoryMask |-> TRUE],
               [confidenceMasks |-> 0, categoryMask |-> FALSE]}

VideoSizes == {[width |-> 640, height |-> 480]}
DefaultCanvasSize == [width |-> 300, height |-> 150]
Deltas == {16}
DeltasPose == {100}

InitCallIdle == [pc |-> "idle"]

(* ============================ Init ===================================== *)
ComponentReset ==
    /\ isInitializing' = TRUE
    /\ initError' = FALSE
    /\ enableFaceSwap' = FALSE
    /\ enable3DAvatar' = FALSE
    /\ enableBackgroundReplace' = FALSE
    /\ mirrorCamera' = TRUE
    /\ has3DInitialized' = FALSE
    /\ backgroundImage' = FALSE
    /\ faceOverlayImage' = FALSE
    /\ faceSnapshotRef' = Null
    /\ lastFaceResultTimeRef' = 0
    /\ lastVideoTimeRef' = -1
    /\ frameSizeRef' = [width |-> 0, height |-> 0]
    /\ faceBoxRef' = Null
    /\ canvasSize' = DefaultCanvasSize
    /\ lastFrame' = Null
    /\ detectedTimes' = {}
    /\ segmentedTimes' = {}
    /\ videoReady' = FALSE
    /\ videoSize' = [width |-> 0, height |-> 0]
    /\ videoTime' = 0
    /\ lastFaceBoxRef' = Null
    /\ lastFaceBoxTimeRef' = 0
    /\ groupVisible' = TRUE
    /\ hasPositionRef' = FALSE
    /\ smoothPositionRef' = [x |-> 0, y |-> 0]
    /\ smoothScaleRef' = 1 * PosScale
    /\ hasRotationRef' = FALSE
    /\ targetQuatRef' = 0
    /\ smoothQuatRef' = 0
    /\ groupQuat' = 0
    /\ blendshapeStateRef' = <<>>
    /\ morphInfluences' = [n \in MorphTargetDictionary |-> 0]
    /\ lastTick' = Null

InitPipeline ==
    /\ faceLandmarker = FALSE
    /\ imageSegmenter = FALSE
    /\ svcIsInitializing = FALSE
    /\ initCalls = [k \in 1..MaxMounts |-> InitCallIdle]
    /\ mounted = FALSE
    /\ epoch = 0
    /\ isInitializing = TRUE
    /\ initError = FALSE
    /\ enableFaceSwap = FALSE
    /\ enable3DAvatar = FALSE
    /\ enableBackgroundReplace = FALSE
    /\ mirrorCamera = TRUE
    /\ has3DInitialized = FALSE
    /\ backgroundImage = FALSE
    /\ faceOverlayImage = FALSE
    /\ faceSnapshotRef = Null
    /\ lastFaceResultTimeRef = 0
    /\ lastVideoTimeRef = -1
    /\ frameSizeRef = [width |-> 0, height |-> 0]
    /\ faceBoxRef = Null
    /\ canvasSize = DefaultCanvasSize
    /\ canvas = BlankCanvas
    /\ now = 0
    /\ videoReady = FALSE
    /\ videoSize = [width |-> 0, height |-> 0]
    /\ videoTime = 0
    /\ docVisible = TRUE
    /\ segQueue = <<>>
    /\ lastFrame = Null
    /\ detectedTimes = {}
    /\ segmentedTimes = {}
    /\ lastFaceBoxRef = Null
    /\ lastFaceBoxTimeRef = 0
    /\ groupVisible = TRUE
    /\ hasPositionRef = FALSE
    /\ smoothPositionRef = [x |-> 0, y |-> 0]
    /\ smoothScaleRef = 1 * PosScale
    /\ hasRotationRef = FALSE
    /\ targetQuatRef = 0
    /\ smoothQuatRef = 0
    /\ groupQuat = 0
    /\ blendshapeStateRef = <<>>
    /\ morphInfluences = [n \in MorphTargetDictionary |-> 0]
    /\ lastTick = Null

(* No RenderTick is mounted: no timer, no frame requested.                 *)
InitRenderTick ==
    /\ intervals = 0
    /\ frames = 0

InitBuilder ==
    /\ bsArgs = Null
    /\ bsResult = Null

(* Date.now() when the page starts: any value far above the restart      *)
(* window.                                                                 *)
DateStart == 100000

InitCamera ==
    /\ hookMounted = FALSE
    /\ streamRef = Null
    /\ liveStreams = {}
    /\ requests = 0
    /\ streamCount = 0
    /\ lastRestartAtRef = 0
    /\ dateNow = DateStart
    /\ cameraError = FALSE
    /\ signals = 0

InitSmooth == smoothRun = Null

(* CameraProcessor.tsx 13-14: both refs start empty.                       *)
InitBuffers ==
    /\ maskCanvasRef = Null
    /\ personCanvasRef = Null
    /\ canvasesCreated = [mask |-> 0, person |-> 0]
    /\ lastEnsure = Null

InitLog == tickLog = <<>>

(* part_003 114-120: the application has not been started; the variables   *)
(* hold the values of their declarations.                                  *)
InitHost ==
    host = [phase |-> "off", platform |-> "none",
            renderMode |-> "gpu", allowGpuFallback |-> TRUE,
            rendererReady |-> FALSE, gpuFallbackTimer |-> <<>>,
            timers |-> {}, timerCount |-> 0, windows |-> 0,
            settings |-> <<>>, relaunch |-> FALSE, launches |-> 0,
            hostNow |-> 0, event |-> "none", fallbackReason |-> "none"]

InitSide ==
    InitRenderTick /\ InitBuilder /\ InitCamera /\ InitSmooth /\ InitBuffers /\ InitLog
    /\ InitHost

Init ==
    /\ InitPipeline
    /\ fbArgs = Null
    /\ fbResult = Null
    /\ tickCount = 0
    /\ delegates = <<>>
    /\ lastCreate = Null
    /\ InitSide

(* ===================== MediaPipeService.initialize ===================== *)
(* The synchronous head of initialize(), up to its first await.            *)
(* Mutant: initialize() without the test for existing detectors.           *)
initializeHeadNoCheck == IF svcIsInitializing THEN "resolved" ELSE "vision"

initializeHead ==
    IF faceLandmarker /\ imageSegmenter THEN "resolved"
    ELSE IF svcIsInitializing THEN "resolved"
    ELSE "vision"

(* Mount of CameraProcessor: fresh state and refs, the effects run: the    *)
(* initialize() call is issued and renderLoop paints the placeholder.      *)
Mount ==
    /\ ~mounted /\ epoch < MaxMounts
    /\ mounted' = TRUE
    /\ epoch' = epoch + 1
    /\ ComponentReset
    /\ initCalls' = [initCalls EXCEPT ![epoch + 1] = [pc |-> initializeHead]]
    /\ svcIsInitializing' = (svcIsInitializing \/ initializeHead = "vision")
    /\ canvas' = FilledCanvas
    /\ UNCHANGED <<faceLandmarker, imageSegmenter, now, docVisible, segQueue, boxVars>>

(* Unmount: cleanups run (active = false, the frame request cancelled);    *)
(* the instance's state and refs are gone.                                 *)
Unmount ==
    /\ mounted
    /\ mounted' = FALSE
    /\ ComponentReset
    /\ canvas' = BlankCanvas
    /\ UNCHANGED <<svcVars, epoch, now, docVisible, segQueue, boxVars>>

(* The steps of an initialize() call k past its head; ok is the outcome of *)
(* the awaited load.  A failure runs catch (rethrow) and finally.          *)
InitStepBody(k, ok) ==
    /\ initCalls[k].pc \in {"vision", "face", "segmenter"}
    /\ LET pc == initCalls[k].pc
       IN /\ initCalls' = [initCalls EXCEPT ![k] =
                 [pc |-> IF ~ok THEN "rejected"
                         ELSE IF pc = "vision" THEN "face"
                         ELSE IF pc = "face" THEN "segmenter"
                         ELSE "resolved"]]
          /\ faceLandmarker' = (faceLandmarker \/ (ok /\ pc = "face"))
          /\ imageSegmenter' = (imageSegmenter \/ (ok /\ pc = "segmenter"))
          /\ svcIsInitializing' = IF ~ok \/ pc = "segmenter" THEN FALSE
                                  ELSE svcIsInitializing
    /\ UNCHANGED <<flagVars, cpVars, loopVars, envVars, avatarVars>>

InitStep(k, ok) == InitStepBody(k, ok) /\ UNCHANGED boxVars

(* part_001 92-111: the acceleration modes to try, in order.  renderMode   *)
(* is the stored "renderMode" setting when it is "cpu" or "gpu", else      *)
(* "null".                                                                 *)
RenderModes == {"cpu", "gpu", "null"}

getDelegateOrder(isElectron, renderMode) ==
    IF isElectron
    THEN (IF renderMode = "gpu" THEN <<"GPU", "CPU">> ELSE <<"CPU">>)
    ELSE <<"GPU", "CPU">>

(* part_001 113-127: the loop of createWithDelegates from position i on.   *)
(* createFn[d] tells whether creation with delegate d succeeds; a failure  *)
(* with d throws the error named d.  tried lists the delegates createFn    *)
(* was called with.                                                        *)
RECURSIVE createLoop(_, _, _, _, _)
createLoop(createFn, ds, i, lastError, tried) ==
    IF i > Len(ds)
    THEN [ok |-> FALSE, value |-> "none", error |-> lastError, tried |-> tried]
    ELSE IF createFn[ds[i]]
    THEN [ok |-> TRUE, value |-> ds[i], error |-> "none",
          tried |-> Append(tried, ds[i])]
    ELSE createLoop(createFn, ds, i + 1, ds[i], Append(tried, ds[i]))

(* Mutant: every delegate of the list is tried, also after a success.      *)
createWithDelegatesAll(createFn, ds) ==
    [createLoop(createFn, ds, 1, "undefined", <<>>) EXCEPT !.tried = ds]

createWithDelegates(createFn, ds) == createLoop(createFn, ds, 1, "undefined", <<>>)

CreateFns == [{"GPU", "CPU"} -> BOOLEAN]

(* part_001 33-34: the FilesetResolver load settles, then the delegate     *)
(* list is read.                                                           *)
InitVision(k, ok, isElectron, renderMode) ==
    /\ initCalls[k].pc = "vision"
    /\ InitStepBody(k, ok)
    /\ delegates' = IF ok THEN getDelegateOrder(isElectron, renderMode) ELSE delegates
    /\ UNCHANGED <<fbArgs, fbResult, tickCount, lastCreate, sideVars>>

(* part_001 36-46: one createWithDelegates call of initialize() settles.   *)
InitCreate(k, createFn) ==
    /\ initCalls[k].pc \in {"face", "segmenter"}
    /\ LET r == createWithDelegates(createFn, delegates)
       IN /\ InitStepBody(k, r.ok)
          /\ lastCreate' = Some([call |-> k, kind |-> initCalls[k].pc,
                                 delegates |-> delegates, createFn |-> createFn,
                                 ok |-> r.ok, value |-> r.value,
                                 error |-> r.error, tried |-> r.tried])
    /\ UNCHANGED <<fbArgs, fbResult, tickCount, delegates, sideVars>>


(* CameraProcessor.tsx 168-185: then / catch of the initialize() promise   *)
(* of mount k; inert once that mount's cleanup ran.  The state change      *)
(* re-runs the render-loop effect, which calls renderLoop().               *)
InitSettle(k, D) ==
    /\ initCalls[k].pc \in {"resolved", "rejected"}
    /\ initCalls' = [initCalls EXCEPT ![k] = [pc |-> "done"]]
    /\ IF mounted /\ epoch = k
       THEN /\ isInitializing' = FALSE
            /\ initError' = (initCalls[k].pc = "rejected")
            /\ \E det \in D :
                 RenderLoopBody([Props EXCEPT !.init = FALSE,
                                              !.err = (initCalls[k].pc = "rejected")], det)
       ELSE UNCHANGED <<isInitializing, initError, loopVars>>
    /\ UNCHANGED <<faceLandmarker, imageSegmenter, svcIsInitializing, flagVars,
                   mounted, epoch, envVars, avatarVars, boxVars>>

(* The display callback (requestAnimationFrame).                           *)
RenderLoop(D) ==
    /\ mounted
    /\ \E det \in D : RenderLoopBody(Props, det)
    /\ UNCHANGED <<svcVars, flagVars, cpVars, envVars, avatarVars, boxVars>>

(* Sidebar toggles: the new flag re-creates renderLoop, which is called    *)
(* once by the effect.                                                     *)
ToggleFaceSwap(D) ==
    /\ mounted
    /\ enableFaceSwap' = ~enableFaceSwap
    /\ \E det \in D : RenderLoopBody([Props EXCEPT !.efs = ~enableFaceSwap], det)
    /\ UNCHANGED <<svcVars, cpVars, envVars, avatarVars, boxVars, enable3DAvatar,
                   enableBackgroundReplace, mirrorCamera, has3DInitialized,
                   backgroundImage, faceOverlayImage>>

Toggle3DAvatarBody(D) ==
    /\ mounted
    /\ enable3DAvatar' = ~enable3DAvatar
    /\ has3DInitialized' = (has3DInitialized \/ ~enable3DAvatar)
    /\ \E det \in D : RenderLoopBody([Props EXCEPT !.e3d = ~enable3DAvatar], det)
    /\ UNCHANGED <<svcVars, cpVars, envVars, avatarVars, enableFaceSwap,
                   enableBackgroundReplace, mirrorCamera,
                   backgroundImage, faceOverlayImage>>

Toggle3DAvatar(D) == Toggle3DAvatarBody(D) /\ UNCHANGED boxVars

(* AvatarOverlay.tsx 25-52, RenderTick: the effects that run when the      *)
(* overlay is rendered with a new value of enabled.  The cleanup of the    *)
(* previous interval effect clears its timer; the interval effect sets a   *)
(* timer only when enabled; the second effect invalidates only when        *)
(* enabled.                                                                *)
RenderTickEffectsNoTimer(wasEnabled, enabled) ==
    /\ intervals' = intervals - (IF wasEnabled THEN 1 ELSE 0)
    /\ frames' = IF enabled THEN frames + 1 ELSE frames

RenderTickEffects(wasEnabled, enabled) ==
    /\ intervals' = intervals - (IF wasEnabled THEN 1 ELSE 0)
                              + (IF enabled THEN 1 ELSE 0)
    /\ frames' = IF enabled THEN frames + 1 ELSE frames

(* The 3D toggle together with the overlay's RenderTick.                   *)
Toggle3DOverlay(D) ==
    /\ frames < MaxFrames
    /\ Toggle3DAvatarBody(D)
    /\ RenderTickEffects(has3DInitialized /\ enable3DAvatar, ~enable3DAvatar)
    /\ UNCHANGED <<fbArgs, fbResult, tickCount, delegVars, otherSideVars>>

(* AvatarOverlay.tsx 37-39: a live interval timer fires and invalidates.   *)
IntervalFire ==
    /\ intervals > 0 /\ frames < MaxFrames
    /\ frames' = frames + 1
    /\ UNCHANGED <<svcVars, flagVars, cpVars, loopVars, envVars, avatarVars,
                   fbArgs, fbResult, tickCount, delegVars, intervals, otherSideVars>>

(* frameloop="demand" (AvatarOverlay.tsx 285): a requested frame is        *)
(* rendered, which runs the useFrame callback.                             *)
DemandFrame(delta) ==
    /\ frames > 0
    /\ frames' = frames - 1
    /\ tickCount < MaxTicks
    /\ tickCount' = tickCount + 1
    /\ useFrameBody(delta)
    /\ UNCHANGED <<intervals, otherSideVars>>

ToggleBackgroundReplace(D) ==
    /\ mounted
    /\ enableBackgroundReplace' = ~enableBackgroundReplace
    /\ \E det \in D : RenderLoopBody([Props EXCEPT !.ebg = ~enableBackgroundReplace], det)
    /\ UNCHANGED <<svcVars, cpVars, envVars, avatarVars, boxVars, enableFaceSwap,
                   enable3DAvatar, mirrorCamera, has3DInitialized,
                   backgroundImage, faceOverlayImage>>

ToggleMirror(D) ==
    /\ mounted
    /\ mirrorCamera' = ~mirrorCamera
    /\ \E det \in D : RenderLoopBody([Props EXCEPT !.mirror = ~mirrorCamera], det)
    /\ UNCHANGED <<svcVars, cpVars, envVars, avatarVars, boxVars, enableFaceSwap,
                   enable3DAvatar, enableBackgroundReplace, has3DInitialized,
                   backgroundImage, faceOverlayImage>>

(* CameraProcessor.tsx 141-151 *)
handleVisible ==
    IF docVisible' THEN lastVideoTimeRef' = -1 ELSE UNCHANGED lastVideoTimeRef

VisibilityChange ==
    /\ mounted
    /\ docVisible' = ~docVisible
    /\ handleVisible
    /\ UNCHANGED <<svcVars, flagVars, cpVars, avatarVars, boxVars, now, videoReady,
                   videoSize, videoTime, faceSnapshotRef, lastFaceResultTimeRef,
                   frameSizeRef, faceBoxRef, canvasSize, canvas, segQueue,
                   lastFrame, detectedTimes, segmentedTimes>>

WindowFocus ==
    /\ mounted
    /\ docVisible' = docVisible
    /\ handleVisible
    /\ UNCHANGED <<svcVars, flagVars, cpVars, avatarVars, boxVars, now, videoReady,
                   videoSize, videoTime, faceSnapshotRef, lastFaceResultTimeRef,
                   frameSizeRef, faceBoxRef, canvasSize, canvas, segQueue,
                   lastFrame, detectedTimes, segmentedTimes>>

(* The segmenter delivers the oldest pending result to its callback, which *)
(* runs the composition pass of the frame that asked for it.               *)
DeliverSegmentationBody(result, ctxOk) ==
    /\ Len(segQueue) > 0
    /\ segQueue' = Tail(segQueue)
    /\ LET e == Head(segQueue)
       IN IF mounted /\ e.epoch = epoch
          THEN /\ canvas' = drawComposition(e.p, Some(result), e.snapshot, ctxOk,
                                            e.frame, canvasSize)
               /\ faceBoxRef' = canvas'.faceBox
          ELSE UNCHANGED <<canvas, faceBoxRef>>
    /\ UNCHANGED <<svcVars, flagVars, cpVars, envVars, avatarVars,
                   faceSnapshotRef, lastFaceResultTimeRef, lastVideoTimeRef,
                   frameSizeRef, canvasSize, lastFrame, detectedTimes, segmentedTimes>>

DeliverSegmentation(result, ctxOk) ==
    DeliverSegmentationBody(result, ctxOk) /\ UNCHANGED boxVars

(* ---------------------------- environment ------------------------------ *)
Elapse(d) ==
    /\ mounted
    /\ now + d <= MaxTime
    /\ now' = now + d
    /\ UNCHANGED <<svcVars, flagVars, cpVars, loopVars, avatarVars, boxVars,
                   videoReady, videoSize, videoTime, docVisible>>

VideoLoaded(size) ==
    /\ mounted /\ ~videoReady
    /\ videoReady' = TRUE
    /\ videoSize' = size
    /\ UNCHANGED <<svcVars, flagVars, cpVars, loopVars, avatarVars, boxVars,
                   now, videoTime, docVisible>>

VideoAdvance ==
    /\ mounted /\ videoReady /\ videoTime < MaxVideoTime
    /\ videoTime' = videoTime + 1
    /\ UNCHANGED <<svcVars, flagVars, cpVars, loopVars, avatarVars, boxVars,
                   now, videoReady, videoSize, docVisible>>

(* ======================= the pipeline specification ==================== *)
(* One mount: initialization, the three feature flags, the render loop,    *)
(* the segmentation callbacks and the clock.                               *)
PipeSteps == {601}

Next ==
    \/ Mount
    \/ \E k \in 1..MaxMounts, ok \in BOOLEAN : InitStep(k, ok)
    \/ \E k \in 1..MaxMounts : InitSettle(k, DetResultsHold)
    \/ RenderLoop(DetResultsHold)
    \/ ToggleFaceSwap(DetResultsHold)
    \/ Toggle3DAvatar(DetResultsHold)
    \/ ToggleBackgroundReplace(DetResultsHold)
    \/ \E r \in SegMasks : DeliverSegmentation(r, TRUE)
    \/ \E d \in PipeSteps : Elapse(d)
    \/ \E size \in VideoSizes : VideoLoaded(size)
    \/ VideoAdvance

Spec == Init /\ [][Next]_vars

(* ===================== the visibility specification ==================== *)
(* One mount with the visibility / focus events of the document.           *)
NextVisible ==
    \/ Mount
    \/ \E k \in 1..MaxMounts, ok \in BOOLEAN : InitStep(k, ok)
    \/ \E k \in 1..MaxMounts : InitSettle(k, DetResultsHold)
    \/ RenderLoop(DetResultsHold)
    \/ ToggleFaceSwap(DetResultsHold)
    \/ ToggleBackgroundReplace(DetResultsHold)
    \/ VisibilityChange
    \/ WindowFocus
    \/ \E r \in SegMasks : DeliverSegmentation(r, TRUE)
    \/ \E size \in VideoSizes : VideoLoaded(size)
    \/ VideoAdvance

SpecVisible == Init /\ [][NextVisible]_vars

(* ==================== the initialization specification ================= *)
(* Mounts and remounts against the singleton service, initialization with  *)
(* failures, background replacement and its callbacks.                     *)
NextInit ==
    \/ Mount
    \/ Unmount
    \/ \E k \in 1..MaxMounts, ok \in BOOLEAN : InitStep(k, ok)
    \/ \E k \in 1..MaxMounts : InitSettle(k, DetResultsHold)
    \/ RenderLoop(DetResultsHold)
    \/ ToggleFaceSwap(DetResultsHold)
    \/ ToggleBackgroundReplace(DetResultsHold)
    \/ \E r \in SegResults, ctxOk \in BOOLEAN : DeliverSegmentation(r, ctxOk)
    \/ \E size \in VideoSizes : VideoLoaded(size)
    \/ VideoAdvance

SpecInit == Init /\ [][NextInit]_vars

(* ===================== the hold-policy specification =================== *)
(* One mount; the clock, the detector, the 2D / 3D flags, the render loop  *)
(* and the 3D overlay's ticks.                                             *)
NextHold ==
    \/ Mount
    \/ \E k \in 1..MaxMounts, ok \in BOOLEAN : InitStep(k, ok)
    \/ \E k \in 1..MaxMounts : InitSettle(k, DetResultsHold)
    \/ RenderLoop(DetResultsHold)
    \/ ToggleFaceSwap(DetResultsHold)
    \/ Toggle3DAvatar(DetResultsHold)
    \/ \E d \in TimeSteps : Elapse(d)
    \/ \E size \in VideoSizes : VideoLoaded(size)
    \/ VideoAdvance
    \/ \E delta \in Deltas : useFrame(delta)

SpecHold == Init /\ [][NextHold]_vars

(* ======================= the 3D-pose specification ===================== *)
(* One mount, a detector that also delivers matrices and expression        *)
(* weights, the mirror and 3D flags, and the overlay's ticks.              *)
NextAvatar ==
    \/ Mount
    \/ \E k \in 1..MaxMounts : InitStep(k, TRUE)
    \/ \E k \in 1..MaxMounts : InitSettle(k, DetResultsPose)
    \/ RenderLoop(DetResultsPose)
    \/ Toggle3DAvatar(DetResultsPose)
    \/ ToggleMirror(DetResultsPose)
    \/ \E size \in VideoSizes : VideoLoaded(size)
    \/ VideoAdvance
    \/ \E delta \in DeltasPose : useFrameCounted(delta)

SpecAvatar == Init /\ [][NextAvatar]_vars

(* ===================== the compositor specification ==================== *)
(* The component mounted on a working service, the settings the compositor *)
(* reads (background replacement, mirror, the two uploads) chosen before   *)
(* the camera delivered its first frame; then the render loop, the 2D face *)
(* flag and the segmenter's answers with and without masks.                *)
(* The detector may also report a face with no landmarks.                  *)
DetResultsFace ==
    {NoFaceResult, FaceResult(FaceA, Null, Null), FaceResult(<<>>, Null, Null)}

InitCompose ==
    /\ faceLandmarker = TRUE
    /\ imageSegmenter = TRUE
    /\ svcIsInitializing = FALSE
    /\ initCalls = [k \in 1..MaxMounts |-> IF k = 1 THEN [pc |-> "done"] ELSE InitCallIdle]
    /\ mounted = TRUE
    /\ epoch = 1
    /\ isInitializing = FALSE
    /\ initError = FALSE
    /\ enableFaceSwap = FALSE
    /\ enable3DAvatar = FALSE
    /\ enableBackgroundReplace \in BOOLEAN
    /\ mirrorCamera \in BOOLEAN
    /\ has3DInitialized = FALSE
    /\ backgroundImage \in BOOLEAN
    /\ faceOverlayImage \in BOOLEAN
    /\ faceSnapshotRef = Null
    /\ lastFaceResultTimeRef = 0
    /\ lastVideoTimeRef = -1
    /\ frameSizeRef = [width |-> 0, height |-> 0]
    /\ faceBoxRef = Null
    /\ canvasSize = DefaultCanvasSize
    /\ canvas = FilledCanvas
    /\ now = 0
    /\ videoReady = TRUE
    /\ videoSize \in VideoSizes
    /\ videoTime = 0
    /\ docVisible = TRUE
    /\ segQueue = <<>>
    /\ lastFrame = Null
    /\ detectedTimes = {}
    /\ segmentedTimes = {}
    /\ lastFaceBoxRef = Null
    /\ lastFaceBoxTimeRef = 0
    /\ groupVisible = TRUE
    /\ hasPositionRef = FALSE
    /\ smoothPositionRef = [x |-> 0, y |-> 0]
    /\ smoothScaleRef = 1 * PosScale
    /\ hasRotationRef = FALSE
    /\ targetQuatRef = 0
    /\ smoothQuatRef = 0
    /\ groupQuat = 0
    /\ blendshapeStateRef = <<>>
    /\ morphInfluences = [n \in MorphTargetDictionary |-> 0]
    /\ lastTick = Null
    /\ fbArgs = Null
    /\ fbResult = Null
    /\ tickCount = 0
    /\ delegates = <<>>
    /\ lastCreate = Null
    /\ InitSide

NextCompose ==
    \/ RenderLoop(DetResultsFace)
    \/ ToggleFaceSwap(DetResultsFace)
    \/ \E r \in SegResults, ctxOk \in BOOLEAN : DeliverSegmentation(r, ctxOk)
    \/ VideoAdvance

SpecCompose == InitCompose /\ [][NextCompose]_vars

(* ====================== the face-layer specification =================== *)
(* The same start, with the clock, so that the hold policy can clear the   *)
(* snapshot, and a segmenter that always delivers masks.                   *)
NextFaceLayer ==
    \/ RenderLoop(DetResultsFace)
    \/ ToggleFaceSwap(DetResultsFace)
    \/ \E r \in SegMasks : DeliverSegmentation(r, TRUE)
    \/ \E d \in PipeSteps : Elapse(d)
    \/ VideoAdvance

SpecFaceLayer == InitCompose /\ [][NextFaceLayer]_vars

(* ==================== the face-box-source specification ================ *)
(* One mount with a working service, the two consumers of computeFaceBox   *)
(* (the compositor, run at once or by the segmentation callback, and the   *)
(* 3D overlay) and a detector that may report a face with no landmarks.    *)
NextLandmarks ==
    \/ Mount
    \/ \E k \in 1..MaxMounts : InitStep(k, TRUE)
    \/ \E k \in 1..MaxMounts : InitSettle(k, DetResultsFace)
    \/ RenderLoop(DetResultsFace)
    \/ Toggle3DAvatar(DetResultsFace)
    \/ ToggleBackgroundReplace(DetResultsFace)
    \/ \E r \in SegMasks : DeliverSegmentation(r, TRUE)
    \/ \E size \in VideoSizes : VideoLoaded(size)
    \/ VideoAdvance
    \/ \E delta \in DeltasPose : useFrameCounted(delta)

SpecLandmarks == Init /\ [][NextLandmarks]_vars

(* ===================== the face-box specification ====================== *)
Coords == {0, 3, 10}
Points == {Pt(x, y) : x \in Coords, y \in Coords}
(* The end-to-end fixture: a centre point and the four corner points.      *)
FixtureLandmarks == <<Pt(5, 5), Pt(1, 1), Pt(9, 1), Pt(1, 9), Pt(9, 9)>>
LandmarkLists == UNION {[1..n -> Points] : n \in 1..MaxLandmarks} \cup {FixtureLandmarks}
FrameSizes == {[width |-> 640, height |-> 480], [width |-> 300, height |-> 150]}
BoxInputs ==
    [landmarks : LandmarkLists, frame : FrameSizes,
     padX : {0, compPadX, avatarPadX}, padY : {0, compPadY},
     yShift : {compShiftY, avatarShiftY}, mirrorX : BOOLEAN]

InitBox ==
    /\ InitPipeline
    /\ fbArgs \in {Some(a) : a \in BoxInputs}
    /\ fbResult = Null
    /\ tickCount = 0
    /\ delegates = <<>>
    /\ lastCreate = Null
    /\ InitSide

ApplyFaceBox ==
    /\ ~IsNull(fbArgs) /\ IsNull(fbResult)
    /\ LET a == Val(fbArgs)
       IN fbResult' = Some(computeFaceBox(a.landmarks, a.frame.width, a.frame.height,
                                          a.padX, a.padY, a.yShift, a.mirrorX))
    /\ UNCHANGED <<svcVars, flagVars, cpVars, loopVars, envVars, avatarVars, fbArgs, tickCount, delegVars, sideVars>>

NextBox == ApplyFaceBox

SpecBox == InitBox /\ [][NextBox]_vars

(* =================== the snapshot-builder specification ================ *)
(* Raw detector results: no face, one face, two faces, a face without      *)
(* landmarks; the matrix absent, an empty list, a flat list or a wrapper   *)
(* of 15, 16 or 17 components, a wrapper without a buffer; the weights     *)
(* absent, an empty list, or weights outside [0,1].                        *)
ShapesWild == <<[name |-> "jawOpen", score |-> 150],
                [name |-> "browDownLeft", score |-> -20],
                [name |-> "tongueOut", score |-> 30]>>
NoBuffer == [isArray |-> FALSE, hasData |-> FALSE, elems |-> <<>>]
RawFaces == {<<>>, <<FaceA>>, <<FaceB, FaceA>>, << <<>> >>}
RawMatrixes ==
    {Null, Some(<<>>), Some(<<NoBuffer>>)}
    \cup {Some(<<FlatList(m)>>) : m \in {Short15, RotZ90, RotZ180x2}}
    \cup {Some(<<Wrapper(m), FlatList(RotZ90)>>) : m \in {Short15, NaNLast, RotZ180x2}}
RawBlendshapes == {Null, Some(<<>>), Some(<<ShapesWild, ShapesA>>)}
BuilderInputs ==
    [result : [faceLandmarks : RawFaces, matrixes : RawMatrixes,
               blendshapes : RawBlendshapes],
     timestamp : {0, 700}]

InitSnapshot ==
    /\ InitPipeline
    /\ fbArgs = Null
    /\ fbResult = Null
    /\ tickCount = 0
    /\ delegates = <<>>
    /\ lastCreate = Null
    /\ InitRenderTick
    /\ InitCamera
    /\ InitSmooth
    /\ InitBuffers
    /\ InitLog
    /\ InitHost
    /\ bsArgs \in {Some(a) : a \in BuilderInputs}
    /\ bsResult = Null

ApplyBuildFaceSnapshot ==
    /\ ~IsNull(bsArgs) /\ IsNull(bsResult)
    /\ bsResult' = Some(buildFaceSnapshot(Val(bsArgs).result, Val(bsArgs).timestamp))
    /\ UNCHANGED <<svcVars, flagVars, cpVars, loopVars, envVars, avatarVars,
                   fbArgs, fbResult, tickCount, delegVars, renderTickVars, bsArgs,
                   cameraVars, smoothVars, bufferVars, logVars,
                   hostVars>>

NextSnapshot == ApplyBuildFaceSnapshot

SpecSnapshot == InitSnapshot /\ [][NextSnapshot]_vars

(* ==================== the expression-weight specification ============== *)
(* Detector answers whose weights lie above 1, below 0, inside [0,1], or   *)
(* carry only a name the model does not have; the overlay's ticks smooth   *)
(* them over the frames of the video.                                      *)
ShapesOut == <<[name |-> "jawOpen", score |-> 500],
               [name |-> "eyeLookInLeft", score |-> -20],
               [name |-> "tongueOut", score |-> 30]>>
ShapesAbsent == <<[name |-> "tongueOut", score |-> 90]>>
DetResultsWeights ==
    {FaceResult(FaceA, Null, Some(<<ShapesOut>>)),
     FaceResult(FaceA, Null, Some(<<ShapesA>>)),
     FaceResult(FaceA, Null, Some(<<ShapesAbsent>>))}

NextWeights ==
    \/ RenderLoop(DetResultsWeights)
    \/ Toggle3DAvatar(DetResultsWeights)
    \/ VideoAdvance
    \/ \E delta \in Deltas : useFrameCounted(delta)

SpecWeights == InitCompose /\ [][NextWeights]_vars

(* ====================== the smoothing specification ==================== *)
(* A run of overlay frames in which the face box, the facial matrix and    *)
(* the frame interval stay the same: AvatarOverlay.tsx 182-228 with fixed  *)
(* targets, starting from a pose left by earlier frames.                   *)
SmoothDeltas == {0, 16, 100}
SmoothStartPositions == {Pt(0, 0), Pt(3000, -2000)}
SmoothTargetPositions == {Pt(3000, -2000), Pt(-40, 7)}
SmoothStartScales == {100, 400}
SmoothTargetScales == {250}
SmoothStartQuats == {0, 200}
SmoothTargetMatrixes == {RotZ90, RotZ180x2}

SmoothRuns ==
    [delta : SmoothDeltas,
     targetPos : SmoothTargetPositions,
     boxScale : SmoothTargetScales,
     snapshot : {Some([landmarks |-> FaceA, matrix |-> Some(m),
                       blendshapes |-> Null, timestamp |-> 0])
                 : m \in SmoothTargetMatrixes},
     start : [pos : SmoothStartPositions, scale : SmoothStartScales,
              quat : SmoothStartQuats],
     steps : {0}]

InitSmoothing ==
    /\ faceLandmarker = TRUE
    /\ imageSegmenter = TRUE
    /\ svcIsInitializing = FALSE
    /\ initCalls = [k \in 1..MaxMounts |-> IF k = 1 THEN [pc |-> "done"] ELSE InitCallIdle]
    /\ mounted = TRUE
    /\ epoch = 1
    /\ isInitializing = FALSE
    /\ initError = FALSE
    /\ enableFaceSwap = FALSE
    /\ enable3DAvatar = TRUE
    /\ enableBackgroundReplace = FALSE
    /\ mirrorCamera = FALSE
    /\ has3DInitialized = TRUE
    /\ backgroundImage = FALSE
    /\ faceOverlayImage = FALSE
    /\ smoothRun \in {Some(r) : r \in SmoothRuns}
    /\ faceSnapshotRef = Val(smoothRun).snapshot
    /\ lastFaceResultTimeRef = 0
    /\ lastVideoTimeRef = 0
    /\ frameSizeRef \in VideoSizes
    /\ faceBoxRef = Null
    /\ canvasSize = frameSizeRef
    /\ canvas = FilledCanvas
    /\ now = 0
    /\ videoReady = TRUE
    /\ videoSize = frameSizeRef
    /\ videoTime = 0
    /\ docVisible = TRUE
    /\ segQueue = <<>>
    /\ lastFrame = Null
    /\ detectedTimes = {0}
    /\ segmentedTimes = {}
    /\ lastFaceBoxRef = Null
    /\ lastFaceBoxTimeRef = 0
    /\ groupVisible = TRUE
    /\ hasPositionRef = TRUE
    /\ smoothPositionRef = Val(smoothRun).start.pos
    /\ smoothScaleRef = Val(smoothRun).start.scale
    /\ hasRotationRef = TRUE
    /\ targetQuatRef = extractRotation(Val(Val(Val(smoothRun).snapshot).matrix))
    /\ smoothQuatRef = Val(smoothRun).start.quat
    /\ groupQuat = smoothQuatRef
    /\ blendshapeStateRef = <<>>
    /\ morphInfluences = [n \in MorphTargetDictionary |-> 0]
    /\ lastTick = Null
    /\ fbArgs = Null
    /\ fbResult = Null
    /\ tickCount = 0
    /\ delegates = <<>>
    /\ lastCreate = Null
    /\ InitRenderTick
    /\ InitBuilder
    /\ InitCamera
    /\ InitBuffers
    /\ InitLog
    /\ InitHost

(* AvatarOverlay.tsx 182-228: the pose part of one frame of the run.       *)
useFrameSmoothing ==
    /\ ~IsNull(smoothRun)
    /\ Val(smoothRun).steps < MaxSmoothSteps
    /\ mounted /\ has3DInitialized /\ enable3DAvatar
    /\ LET r == Val(smoothRun)
           pu == PositionUpdate(r.targetPos, r.boxScale, r.delta)
           ru == RotationUpdate(r.snapshot, mirrorCamera, r.delta)
       IN /\ smoothPositionRef' = pu.pos
          /\ smoothScaleRef' = pu.scale
          /\ hasPositionRef' = TRUE
          /\ targetQuatRef' = ru.target
          /\ smoothQuatRef' = ru.smooth
          /\ hasRotationRef' = ru.has
          /\ groupQuat' = ru.group
          /\ smoothRun' = Some([r EXCEPT !.steps = @ + 1])
    /\ UNCHANGED <<svcVars, flagVars, cpVars, loopVars, envVars,
                   lastFaceBoxRef, lastFaceBoxTimeRef, groupVisible,
                   blendshapeStateRef, morphInfluences, lastTick,
                   fbArgs, fbResult, tickCount, delegVars, renderTickVars,
                   builderVars, cameraVars, bufferVars, logVars,
                   hostVars>>

NextSmoothing == useFrameSmoothing

SpecSmoothing == InitSmoothing /\ [][NextSmoothing]_vars

(* ==================== the offscreen-buffer specification =============== *)
(* Mutant: the dimensions compared by width alone.                         *)
ensureCanvasWidthOnly(ref, width, height) ==
    LET created == IsNull(ref)
        current == IF created THEN DefaultCanvasSize ELSE Val(ref)
        write == current.width # width
    IN [ref |-> Some(IF write THEN [width |-> width, height |-> height] ELSE current),
        created |-> created, found |-> current,
        asked |-> [width |-> width, height |-> height], wrote |-> write]

(* CameraProcessor.tsx 194-203: the canvas behind ref after the call, with *)
(* whether it was created by it (a new canvas is 300 x 150), the size the  *)
(* call found and the size it was asked for, and whether it wrote both     *)
(* dimensions.                                                             *)
ensureCanvas(ref, width, height) ==
    LET created == IsNull(ref)
        current == IF created THEN DefaultCanvasSize ELSE Val(ref)
        write == current.width # width \/ current.height # height
    IN [ref |-> Some(IF write THEN [width |-> width, height |-> height] ELSE current),
        created |-> created, found |-> current,
        asked |-> [width |-> width, height |-> height], wrote |-> write]

(* The resolutions of the masks the segmenter hands over, and of the       *)
(* camera's frames when the stream changes its resolution.                 *)
MaskSizes == {[width |-> 256, height |-> 256], [width |-> 256, height |-> 144],
              DefaultCanvasSize}
StreamSizes == VideoSizes \cup {[width |-> 320, height |-> 240]}

(* CameraProcessor.tsx 373-375 with 215-223: the callback's composition    *)
(* pass, with the two ensureCanvas calls of its mask branch.               *)
DeliverMask(result, ctxOk, maskSize) ==
    /\ DeliverSegmentationBody(result, ctxOk)
    /\ LET e == Head(segQueue)
       IN IF mounted /\ e.epoch = epoch /\ e.p.ebg /\ HasMask(Some(result))
          THEN LET maskCanvas == ensureCanvas(maskCanvasRef, maskSize.width,
                                              maskSize.height)
                   personCanvas == ensureCanvas(personCanvasRef, canvasSize.width,
                                                canvasSize.height)
               IN /\ maskCanvasRef' = maskCanvas.ref
                  /\ personCanvasRef' = personCanvas.ref
                  /\ canvasesCreated' =
                        [mask |-> canvasesCreated.mask
                                  + (IF maskCanvas.created THEN 1 ELSE 0),
                         person |-> canvasesCreated.person
                                    + (IF personCanvas.created THEN 1 ELSE 0)]
                  /\ lastEnsure' =
                        Some([mask |-> [found |-> maskCanvas.found,
                                        asked |-> maskCanvas.asked,
                                        wrote |-> maskCanvas.wrote],
                              person |-> [found |-> personCanvas.found,
                                          asked |-> personCanvas.asked,
                                          wrote |-> personCanvas.wrote]])
          ELSE UNCHANGED bufferVars
    /\ UNCHANGED <<fbArgs, fbResult, tickCount, delegVars, renderTickVars,
                   builderVars, cameraVars, smoothVars, logVars,
                   hostVars>>

(* The camera's stream changes its resolution: video.videoWidth and        *)
(* video.videoHeight as renderLoop reads them (CameraProcessor.tsx 342).   *)
VideoResize(size) ==
    /\ mounted /\ videoReady
    /\ videoSize # size
    /\ videoSize' = size
    /\ UNCHANGED <<svcVars, flagVars, cpVars, loopVars, avatarVars, boxVars,
                   now, videoReady, videoTime, docVisible>>

NextBuffers ==
    \/ RenderLoop(DetResultsFace)
    \/ \E r \in SegResults, ctxOk \in BOOLEAN, maskSize \in MaskSizes :
          DeliverMask(r, ctxOk, maskSize)
    \/ VideoAdvance
    \/ \E size \in StreamSizes : VideoResize(size)

SpecBuffers == InitCompose /\ [][NextBuffers]_vars

(* ======================== the mirror specification ===================== *)
(* The composition with a face left of the frame's centre and one centred  *)
(* in it, for both mirror settings.                                        *)
DetResultsMirror ==
    {FaceResult(FaceA, Null, Null), FaceResult(FaceB, Null, Null)}

(* CameraProcessor.tsx 208-212: where the span lo..hi of the context's x   *)
(* axis lands on the displayed canvas of the given width under the         *)
(* transform the pass set: scale(-1, 1) then translate(-width, 0) sends x  *)
(* to width - x.                                                           *)
ScreenExtent(ops, lo, hi, width) ==
    IF \E i \in 1..Len(ops) : ops[i] = "scale(-1,1)"
    THEN [lo |-> width - hi, hi |-> width - lo]
    ELSE [lo |-> lo, hi |-> hi]

NextMirror ==
    \/ RenderLoop(DetResultsMirror)
    \/ ToggleFaceSwap(DetResultsMirror)
    \/ \E r \in SegMasks : DeliverSegmentation(r, TRUE)
    \/ VideoAdvance

SpecMirror == InitCompose /\ [][NextMirror]_vars

(* ======================= the show-again specification ================== *)
(* The overlay's life after its first frames: faces that come, go and come *)
(* back with another pose, the 3D switch, time enough for the face-box     *)
(* hold to run out, and frames enough to lose the face and find it again.  *)
DetResultsShow ==
    {FaceResult(FaceA, Some(<<FlatList(RotZ90)>>), Null),
     FaceResult(FaceB, Some(<<Wrapper(RotZ180x2)>>), Null),
     FaceResult(<<>>, Null, Null)}

(* The next frame of the video, up to MaxShowFrames.                       *)
VideoAdvanceShow ==
    /\ mounted /\ videoReady /\ videoTime < MaxShowFrames
    /\ videoTime' = videoTime + 1
    /\ UNCHANGED <<svcVars, flagVars, cpVars, loopVars, avatarVars, boxVars,
                   now, videoReady, videoSize, docVisible>>

(* One useFrame callback, counted and written to the log.                  *)
useFrameLogged(delta) ==
    /\ tickCount < MaxTicks
    /\ tickCount' = tickCount + 1
    /\ useFrameBody(delta)
    /\ tickLog' = Append(tickLog, [enabled |-> lastTick'[1].enabled,
                                   shown |-> lastTick'[1].shown,
                                   snapPos |-> lastTick'[1].snapPos,
                                   snapRot |-> lastTick'[1].snapRot])
    /\ UNCHANGED <<renderTickVars, builderVars, cameraVars, smoothVars, bufferVars,
                   hostVars>>

(* The compositor's settings at their defaults: no background            *)
(* replacement, no uploaded images, the camera mirrored.                   *)
InitShow ==
    /\ InitCompose
    /\ ~enableBackgroundReplace /\ mirrorCamera
    /\ ~backgroundImage /\ ~faceOverlayImage

NextShow ==
    \/ RenderLoop(DetResultsShow)
    \/ Toggle3DAvatar(DetResultsShow)
    \/ Elapse(faceBoxHoldMs)
    \/ VideoAdvanceShow
    \/ \E delta \in DeltasPose : useFrameLogged(delta)

SpecShow == InitShow /\ [][NextShow]_vars

(* ======================= Electron main process ========================= *)
(* part_003 105-423. Of the settings only renderMode and allowGpuFallback  *)
(* are followed; the GPU backend and the two sandbox flags take no part in *)
(* the fallback. Time is in ms since the process started.                  *)
MaxLaunches == 3
MaxTimers == 2
MaxHostTime == 24000
gpuReadyTimeoutMs == 12000

nonHostVars == <<svcVars, flagVars, cpVars, loopVars, envVars, avatarVars,
                 fbArgs, fbResult, tickCount, delegVars, renderTickVars,
                 builderVars, cameraVars, smoothVars, bufferVars, logVars>>

(* What settings.json may hold when the application is started: no file or *)
(* an unreadable one (<<>>), or an object whose two fields are each absent  *)
(* or of the wrong type (<<>>) or a valid value.                           *)
SettingsFiles ==
    {<<>>} \cup
    {<<[renderMode |-> m, allowGpuFallback |-> a]>> :
        m \in {<<>>, <<"gpu">>, <<"cpu">>}, a \in {<<>>, <<TRUE>>, <<FALSE>>}}

Platforms == {"darwin", "win32"}

(* part_003 114-151: the declarations and the try block reading the file.  *)
ReadSettings(h) ==
    LET file == h.settings
        hasMode == file # <<>> /\ file[1].renderMode # <<>>
        hasAllow == file # <<>> /\ file[1].allowGpuFallback # <<>>
    IN [h EXCEPT !.renderMode = IF hasMode THEN file[1].renderMode[1] ELSE "gpu",
                 !.allowGpuFallback =
                     IF hasAllow THEN file[1].allowGpuFallback[1] ELSE TRUE,
                 !.rendererReady = FALSE,
                 !.gpuFallbackTimer = <<>>,
                 !.timers = {}, !.timerCount = 0, !.windows = 0,
                 !.relaunch = FALSE, !.launches = h.launches + 1,
                 !.hostNow = 0, !.phase = "starting",
                 !.event = "start", !.fallbackReason = "none"]

(* part_003 155-165: the write may throw; the error is logged and dropped. *)
persistRenderMode(h, writeOk) ==
    IF writeOk
    THEN [h EXCEPT !.settings = <<[renderMode |-> <<h.renderMode>>,
                                   allowGpuFallback |-> <<h.allowGpuFallback>>]>>]
    ELSE h

(* app.relaunch() followed by app.exit(0): the process ends, its timers    *)
(* and windows with it, and a new instance is started.                     *)
relaunchAndExit(h) ==
    [h EXCEPT !.relaunch = TRUE, !.phase = "exited", !.timers = {}, !.windows = 0]

(* part_003 167-178 *)
fallbackToCpu(h, reason, writeOk) ==
    LET called == [h EXCEPT !.fallbackReason = reason]
    IN IF ~h.allowGpuFallback THEN called
       ELSE IF h.renderMode = "cpu" THEN called
       ELSE relaunchAndExit(persistRenderMode([called EXCEPT !.renderMode = "cpu"],
                                              writeOk))

(* clearTimeout: the timer, if still pending, leaves the event loop.       *)
clearTimeout(timers, handle) ==
    IF handle = <<>> THEN timers ELSE {t \in timers : t.id # handle[1]}

(* Mutant: a window created without clearing the timer of the one before.  *)
createWindowNoClear(h) ==
    LET h1 == [h EXCEPT !.rendererReady = FALSE, !.windows = h.windows + 1]
        id == h.timerCount + 1
    IN IF h1.renderMode = "gpu"
       THEN [h1 EXCEPT !.timers = h.timers \cup
                            {[id |-> id, due |-> h.hostNow + gpuReadyTimeoutMs]},
                       !.timerCount = id,
                       !.gpuFallbackTimer = <<id>>]
       ELSE h1

(* part_003 256-307: createWindow, the handlers it installs apart.         *)
createWindow(h) ==
    LET h1 == [h EXCEPT !.rendererReady = FALSE, !.windows = h.windows + 1]
        id == h.timerCount + 1
    IN IF h1.renderMode = "gpu"
       THEN [h1 EXCEPT !.timers = clearTimeout(h.timers, h.gpuFallbackTimer) \cup
                            {[id |-> id, due |-> h.hostNow + gpuReadyTimeoutMs]},
                       !.timerCount = id,
                       !.gpuFallbackTimer = <<id>>]
       ELSE h1

(* part_003 267-275 and 376-382: the renderer is ready, the timer goes.    *)
markReady(h) ==
    [h EXCEPT !.rendererReady = TRUE,
              !.timers = clearTimeout(h.timers, h.gpuFallbackTimer),
              !.gpuFallbackTimer = <<>>]

(* A handler starts: which one, and no fallback asked for yet.             *)
Handling(h, event) == [h EXCEPT !.event = event, !.fallbackReason = "none"]

HostRunning == host.phase = "running"

(* The user starts the application: the process reads the settings file.   *)
AppStart(file, platform) ==
    /\ host.phase = "off"
    /\ host' = ReadSettings([host EXCEPT !.settings = file, !.platform = platform])
    /\ UNCHANGED nonHostVars

(* The instance started by app.relaunch() reads what is on disk.           *)
AppRelaunch ==
    /\ host.phase = "exited" /\ host.relaunch
    /\ host.launches < MaxLaunches
    /\ host' = ReadSettings(host)
    /\ UNCHANGED nonHostVars

(* part_003 406-423: app.whenReady().then(...) ends in createWindow().     *)
AppReady ==
    /\ host.phase = "starting"
    /\ host' = createWindow([Handling(host, "ready") EXCEPT !.phase = "running"])
    /\ UNCHANGED nonHostVars

(* part_003 267-276 *)
DidFinishLoad ==
    /\ HostRunning /\ host.windows > 0
    /\ host' = (LET h == Handling(host, "did-finish-load")
                IN IF h.renderMode = "gpu" THEN markReady(h) ELSE h)
    /\ UNCHANGED nonHostVars

(* part_003 297-301 *)
DidFailLoad(writeOk) ==
    /\ HostRunning /\ host.windows > 0
    /\ host' = (LET h == Handling(host, "did-fail-load")
                IN IF h.renderMode = "gpu"
                   THEN fallbackToCpu(h, "Renderer failed to load", writeOk)
                   ELSE h)
    /\ UNCHANGED nonHostVars

(* part_003 303-307 *)
RenderProcessGone(writeOk) ==
    /\ HostRunning /\ host.windows > 0
    /\ host' = (LET h == Handling(host, "render-process-gone")
                IN IF h.renderMode = "gpu"
                   THEN fallbackToCpu(h, "Renderer process gone", writeOk)
                   ELSE h)
    /\ UNCHANGED nonHostVars

(* part_003 416-420 *)
ChildProcessGone(type, writeOk) ==
    /\ HostRunning
    /\ host' = (LET h == Handling(host, "child-process-gone")
                IN IF h.renderMode = "gpu" /\ type = "GPU"
                   THEN fallbackToCpu(h, "GPU process gone", writeOk)
                   ELSE h)
    /\ UNCHANGED nonHostVars

(* part_003 290-294: the callback of the readiness timer, once due.        *)
ReadinessTimeout(writeOk) ==
    /\ HostRunning
    /\ \E t \in host.timers :
          /\ t.due <= host.hostNow
          /\ host' = (LET h == [Handling(host, "timeout") EXCEPT
                                    !.timers = host.timers \ {t}]
                      IN IF ~h.rendererReady
                         THEN fallbackToCpu(h, "Renderer did not become ready in time.",
                                            writeOk)
                         ELSE h)
    /\ UNCHANGED nonHostVars

(* part_003 376-382. The renderer sends the message when App has mounted   *)
(* (part_001 174-177).                                                     *)
RendererReadyIpc ==
    /\ HostRunning /\ host.windows > 0
    /\ host' = markReady(Handling(host, "app:renderer-ready"))
    /\ UNCHANGED nonHostVars

(* part_003 315-322. The toggle is a control of the mounted application    *)
(* (CameraProcessor.tsx 404-417), so the message follows app:renderer-ready *)
(* of the same window.                                                     *)
SetRenderMode(mode, writeOk) ==
    /\ HostRunning /\ host.windows > 0 /\ host.rendererReady
    /\ host' = persistRenderMode([Handling(host, "app:set-render-mode")
                                     EXCEPT !.renderMode = mode], writeOk)
    /\ UNCHANGED nonHostVars

(* part_003 323-330; CameraProcessor.tsx 420-428.                          *)
SetGpuFallback(enabled, writeOk) ==
    /\ HostRunning /\ host.windows > 0 /\ host.rendererReady
    /\ host' = persistRenderMode([Handling(host, "app:set-gpu-fallback")
                                     EXCEPT !.allowGpuFallback = enabled], writeOk)
    /\ UNCHANGED nonHostVars

(* part_003 383-386; CameraProcessor.tsx 474-476.                          *)
RelaunchIpc ==
    /\ HostRunning /\ host.windows > 0 /\ host.rendererReady
    /\ host' = relaunchAndExit(Handling(host, "app:relaunch"))
    /\ UNCHANGED nonHostVars

(* part_003 391-396: the last window was closed.                           *)
WindowAllClosed ==
    /\ HostRunning /\ host.windows > 0
    /\ host' = (LET h == [Handling(host, "window-all-closed") EXCEPT !.windows = 0]
                IN IF h.platform # "darwin"
                   THEN [h EXCEPT !.phase = "exited", !.timers = {}]
                   ELSE h)
    /\ UNCHANGED nonHostVars

(* part_003 398-404: the dock icon was clicked.                            *)
Activate ==
    /\ HostRunning /\ host.platform = "darwin"
    /\ host.timerCount < MaxTimers
    /\ host' = (LET h == Handling(host, "activate")
                IN IF h.windows = 0 THEN createWindow(h) ELSE h)
    /\ UNCHANGED nonHostVars

HostSteps == {6000, 12000}

HostElapse(d) ==
    /\ HostRunning
    /\ host.hostNow + d <= MaxHostTime
    /\ host' = [host EXCEPT !.hostNow = host.hostNow + d]
    /\ UNCHANGED nonHostVars

NextHost ==
    \/ \E file \in SettingsFiles, platform \in Platforms : AppStart(file, platform)
    \/ AppRelaunch
    \/ AppReady
    \/ DidFinishLoad
    \/ \E ok \in BOOLEAN : DidFailLoad(ok)
    \/ \E ok \in BOOLEAN : RenderProcessGone(ok)
    \/ \E type \in {"GPU", "Utility"}, ok \in BOOLEAN : ChildProcessGone(type, ok)
    \/ \E ok \in BOOLEAN : ReadinessTimeout(ok)
    \/ RendererReadyIpc
    \/ \E mode \in {"cpu", "gpu"}, ok \in BOOLEAN : SetRenderMode(mode, ok)
    \/ \E enabled \in BOOLEAN, ok \in BOOLEAN : SetGpuFallback(enabled, ok)
    \/ RelaunchIpc
    \/ WindowAllClosed
    \/ Activate
    \/ \E d \in HostSteps : HostElapse(d)

SpecHost == Init /\ [][NextHost]_vars

(* ============================ useCamera ================================ *)
pipelineVars == <<svcVars, flagVars, cpVars, loopVars, envVars, avatarVars,
                  fbArgs, fbResult, tickCount, delegVars, renderTickVars, builderVars,
                  smoothVars, bufferVars, logVars, hostVars>>

(* part_003 9-14 *)
stopStream ==
    /\ liveStreams' = IF IsNull(streamRef) THEN liveStreams
                      ELSE liveStreams \ {Val(streamRef)}
    /\ streamRef' = Null

(* part_003 16-20: startStream up to its first await.                      *)
startStream == requests' = requests + 1

(* Mutant: the restart window compared with >.                            *)
RestartAllowedGt == dateNow - lastRestartAtRef > restartWindowMs

(* part_003 45-48: the restart is skipped within 1500 ms of the last one.  *)
RestartAllowed == ~(dateNow - lastRestartAtRef < restartWindowMs)

(* Mutant: a restart that requests the new stream and leaves the old one.  *)
restartStreamNoStop ==
    IF RestartAllowed
    THEN /\ lastRestartAtRef' = dateNow
         /\ startStream
         /\ UNCHANGED <<liveStreams, streamRef>>
    ELSE UNCHANGED <<lastRestartAtRef, liveStreams, streamRef, requests>>

(* part_003 44-53 *)
restartStream ==
    IF RestartAllowed
    THEN /\ lastRestartAtRef' = dateNow
         /\ stopStream
         /\ startStream
    ELSE UNCHANGED <<lastRestartAtRef, liveStreams, streamRef, requests>>

(* part_003 55-64: the hook mounts, its first effect starts a stream.      *)
CameraMount ==
    /\ ~hookMounted /\ streamCount = 0 /\ requests = 0
    /\ hookMounted' = TRUE
    /\ startStream
    /\ UNCHANGED <<pipelineVars, streamRef, liveStreams, streamCount,
                   lastRestartAtRef, dateNow, cameraError, signals>>

(* part_003 60-63: the cleanup of the first effect.                        *)
CameraUnmount ==
    /\ hookMounted
    /\ hookMounted' = FALSE
    /\ stopStream
    /\ UNCHANGED <<pipelineVars, requests, streamCount,
                   lastRestartAtRef, dateNow, cameraError, signals>>

(* part_003 19-36: getUserMedia resolves with a new stream.                *)
StreamGranted ==
    /\ requests > 0
    /\ requests' = requests - 1
    /\ streamCount' = streamCount + 1
    /\ streamRef' = Some(streamCount + 1)
    /\ liveStreams' = liveStreams \cup {streamCount + 1}
    /\ UNCHANGED <<pipelineVars, hookMounted, lastRestartAtRef, dateNow,
                   cameraError, signals>>

(* part_003 37-40: getUserMedia rejects.                                   *)
StreamDenied ==
    /\ requests > 0
    /\ requests' = requests - 1
    /\ cameraError' = TRUE
    /\ UNCHANGED <<pipelineVars, hookMounted, streamRef, liveStreams, streamCount,
                   lastRestartAtRef, dateNow, signals>>

(* part_003 88-100: the handler of app:renderer-resume, registered while   *)
(* the hook is mounted.                                                    *)
IpcResume ==
    /\ hookMounted /\ signals < MaxSignals
    /\ signals' = signals + 1
    /\ restartStream
    /\ UNCHANGED <<pipelineVars, hookMounted, streamCount, dateNow, cameraError>>

(* part_003 66-86: a visibility / focus event that finds the track ended   *)
(* or the video not ready and restarts the stream.                         *)
FocusResume ==
    /\ hookMounted
    /\ restartStream
    /\ UNCHANGED <<pipelineVars, hookMounted, streamCount, dateNow, cameraError,
                   signals>>

CamSteps == {1499, 1500}

CameraElapse(d) ==
    /\ dateNow + d <= DateStart + MaxCamTime
    /\ dateNow' = dateNow + d
    /\ UNCHANGED <<pipelineVars, hookMounted, streamRef, liveStreams, requests,
                   streamCount, lastRestartAtRef, cameraError, signals>>

NextCamera ==
    \/ CameraMount
    \/ CameraUnmount
    \/ StreamGranted
    \/ StreamDenied
    \/ IpcResume
    \/ FocusResume
    \/ \E d \in CamSteps : CameraElapse(d)

SpecCamera == Init /\ [][NextCamera]_vars

(* ======================================================================= *)
(*                               Claims                                    *)
(* ======================================================================= *)
(* A step in which renderLoop processed a frame (source timestamp new).    *)
FrameProcessed ==
    /\ mounted /\ mounted'
    /\ lastVideoTimeRef' # lastVideoTimeRef
    /\ lastVideoTimeRef' = videoTime
    /\ ~IsNull(lastFrame')

(* A step that is one tick of the 3D overlay.                              *)
IsTick == \E delta \in Deltas \cup DeltasPose : useFrameBody(delta)

(* C1: with 3D-avatar mode off, a processed frame that yields no snapshot  *)
(* leaves the effective snapshot unchanged when frame time - last arrival  *)
(* time <= 600 ms and sets it to none when that gap is > 600 ms; after     *)
(* such a frame with a gap > 600 ms the effective snapshot is none.        *)
C1_HoldStep ==
    (FrameProcessed /\ ~lastFrame'[1].e3d /\ ~lastFrame'[1].yielded)
    => /\ (now - lastFaceResultTimeRef <= 600 => faceSnapshotRef' = faceSnapshotRef)
       /\ (now - lastFaceResultTimeRef > 600 => faceSnapshotRef' = Null)
       /\ lastFaceResultTimeRef' = lastFaceResultTimeRef

C1_Cleared ==
    (~IsNull(lastFrame) /\ ~lastFrame[1].e3d /\ ~lastFrame[1].yielded
        /\ lastFrame[1].frame.time - lastFaceResultTimeRef > 600)
    => faceSnapshotRef = Null

C1_HoldPolicy == [][C1_HoldStep]_vars /\ []C1_Cleared

(* C1 witness: a snapshot arrived at 600 ms, the frame at 1201 ms (gap     *)
(* 601 ms) found no face with 3D off, and the slot is cleared.             *)
C1_Witness ==
    /\ ~IsNull(lastFrame) /\ ~lastFrame[1].e3d /\ ~lastFrame[1].yielded
    /\ lastFrame[1].detected
    /\ lastFaceResultTimeRef = 600
    /\ lastFrame[1].frame.time = 1201
    /\ faceSnapshotRef = Null

(* C3: while 3D-avatar mode is enabled a processed frame that yields no    *)
(* snapshot leaves the effective snapshot as it is, whatever the gap; once *)
(* non-null the slot stays non-null while the mode stays enabled.          *)
C3_Step ==
    /\ (FrameProcessed /\ lastFrame'[1].e3d /\ ~lastFrame'[1].yielded)
          => faceSnapshotRef' = faceSnapshotRef
    /\ (enable3DAvatar /\ enable3DAvatar' /\ ~IsNull(faceSnapshotRef))
          => ~IsNull(faceSnapshotRef')

C3_NoClearIn3D == [][C3_Step]_vars

(* C3 witness: 3D on, the last frame found no face 1500 ms or more after   *)
(* the last arrival, and the snapshot is still there.                      *)
C3_Witness ==
    /\ enable3DAvatar
    /\ ~IsNull(lastFrame) /\ lastFrame[1].e3d /\ ~lastFrame[1].yielded
    /\ lastFrame[1].frame.time - lastFaceResultTimeRef >= 1500
    /\ ~IsNull(faceSnapshotRef)

(* C4 as claimed: on every tick of the 3D overlay on which it is enabled   *)
(* the avatar group is visible.                                            *)
C4_AlwaysVisible ==
    (~IsNull(lastTick) /\ lastTick[1].enabled) => lastTick[1].shown

(* C4 amended: on an enabled tick the avatar group is visible whenever the *)
(* slot holds a snapshot with at least one landmark and the frame size is  *)
(* known, however long ago that snapshot arrived; with an empty slot it is *)
(* visible only while a last known box is younger than 1500 ms.            *)
C4_Step ==
    (IsTick /\ enable3DAvatar) =>
       /\ (~IsNull(faceSnapshotRef) /\ Len(faceSnapshotRef[1].landmarks) > 0
             /\ frameSizeRef.width # 0 /\ frameSizeRef.height # 0)
            => groupVisible'
       /\ (IsNull(faceSnapshotRef)
             /\ (IsNull(lastFaceBoxRef) \/ now - lastFaceBoxTimeRef >= 1500))
            => ~groupVisible'

C4_VisibleWithSnapshot == [][C4_Step]_vars

(* C4 witness: an enabled tick showed the avatar from a snapshot that      *)
(* arrived 1500 ms or more before.                                         *)
C4_Witness ==
    /\ enable3DAvatar /\ groupVisible
    /\ ~IsNull(lastTick) /\ lastTick[1].enabled /\ lastTick[1].derived
    /\ ~IsNull(faceSnapshotRef)
    /\ lastFaceBoxTimeRef - lastFaceResultTimeRef >= 1500

(* C5: on an enabled tick where no face box can be derived from the        *)
(* current snapshot and frame size, the last known box is used iff one     *)
(* exists and now - its recording time < 1500 ms, else no box is used and  *)
(* the group is hidden; a tick that derives a box records it as the last   *)
(* known box with the tick's time.                                         *)
C5_Derivable ==
    /\ ~IsNull(faceSnapshotRef) /\ Len(faceSnapshotRef[1].landmarks) > 0
    /\ frameSizeRef.width # 0 /\ frameSizeRef.height # 0

C5_Step ==
    (IsTick /\ enable3DAvatar) =>
       /\ ~C5_Derivable =>
            /\ (~IsNull(lastFaceBoxRef) /\ now - lastFaceBoxTimeRef < 1500)
                 => (lastTick'[1].faceBox = lastFaceBoxRef /\ groupVisible')
            /\ (IsNull(lastFaceBoxRef) \/ now - lastFaceBoxTimeRef >= 1500)
                 => (lastTick'[1].faceBox = Null /\ ~groupVisible')
            /\ UNCHANGED <<lastFaceBoxRef, lastFaceBoxTimeRef>>
       /\ C5_Derivable =>
            /\ lastTick'[1].faceBox = lastFaceBoxRef'
            /\ ~IsNull(lastFaceBoxRef')
            /\ lastFaceBoxTimeRef' = now
            /\ groupVisible'

C5_FaceBoxHold == [][C5_Step]_vars

(* C5 witness: an enabled tick without a derivable box used the box        *)
(* recorded 1499 ms earlier.                                               *)
C5_Witness ==
    /\ ~IsNull(lastTick) /\ lastTick[1].enabled /\ ~lastTick[1].derived
    /\ ~IsNull(lastTick[1].faceBox) /\ groupVisible
    /\ IsNull(faceSnapshotRef)
    /\ now - lastFaceBoxTimeRef = 1499

(* C2: whenever a processed frame yields a snapshot, that snapshot (stamped *)
(* with the frame's time) is the effective snapshot after the frame, the   *)
(* last-arrival time is the frame's time, and the composition pass of that *)
(* frame, immediate or run by the segmentation callback, is given it.      *)
C2_Step ==
    /\ (FrameProcessed /\ lastFrame'[1].yielded) =>
          /\ ~IsNull(faceSnapshotRef')
          /\ faceSnapshotRef'[1].timestamp = now
          /\ Len(faceSnapshotRef'[1].landmarks) > 0
          /\ lastFaceResultTimeRef' = now
          /\ ~lastFrame'[1].segmented =>
                (canvas'.frame = Some(lastFrame'[1].frame)
                    /\ canvas'.snapshot = faceSnapshotRef')
          /\ lastFrame'[1].queued =>
                (segQueue'[Len(segQueue')].frame = lastFrame'[1].frame
                    /\ segQueue'[Len(segQueue')].snapshot = faceSnapshotRef')
    /\ (Len(segQueue') < Len(segQueue) /\ mounted /\ Head(segQueue).epoch = epoch) =>
          (canvas'.frame = Some(Head(segQueue).frame)
              /\ canvas'.snapshot = Head(segQueue).snapshot)

C2_SnapshotEffective == [][C2_Step]_vars

(* C2 witness: the frame at 1202 ms yielded a snapshot that replaced the   *)
(* one in the slot (3D on, so it had not been cleared), and its            *)
(* composition, run by the segmentation callback, used it.                 *)
C2_Witness ==
    /\ ~IsNull(lastFrame) /\ lastFrame[1].yielded /\ lastFrame[1].queued
    /\ lastFrame[1].frame.time = 1202
    /\ lastFrame[1].frame.videoTime = 1
    /\ lastFaceResultTimeRef = 1202
    /\ ~IsNull(faceSnapshotRef) /\ faceSnapshotRef[1].timestamp = 1202
    /\ canvas.frame = Some(lastFrame[1].frame)
    /\ canvas.snapshot = faceSnapshotRef

(* C6 as claimed: detection and segmentation are each invoked at most once *)
(* per source timestamp, whatever display callbacks and visibility / focus *)
(* events occur.                                                           *)
C6_OncePerTimestamp ==
    ~IsNull(lastFrame) => (~lastFrame[1].redetected /\ ~lastFrame[1].resegmented)

(* C6 amended: a display callback whose source timestamp equals the stored *)
(* last-processed timestamp performs no detection, no segmentation and no  *)
(* draw; a source timestamp is processed a second time only after a        *)
(* visibility / focus event reset the stored timestamp to -1.              *)
C6_Step ==
    /\ (mounted /\ mounted' /\ videoTime = lastVideoTimeRef) =>
          /\ UNCHANGED <<lastFrame, detectedTimes, segmentedTimes,
                         faceSnapshotRef, lastFaceResultTimeRef>>
          /\ Len(segQueue') <= Len(segQueue)
          /\ canvas' # canvas => Len(segQueue') < Len(segQueue)
    /\ (FrameProcessed /\ (lastFrame'[1].redetected \/ lastFrame'[1].resegmented)) =>
          lastVideoTimeRef = -1

C6_SkipSameTimestamp == [][C6_Step]_vars

(* C6 witness: after a visibility / focus event the frame with an already  *)
(* detected and segmented source timestamp was processed again.           *)
C6_Witness ==
    /\ ~IsNull(lastFrame) /\ lastFrame[1].redetected /\ lastFrame[1].resegmented
    /\ lastVideoTimeRef = videoTime

(* C7 as claimed: with background replacement on, a processed frame for    *)
(* which no segmentation callback is pending has been composited: the      *)
(* canvas holds that frame's pass, with the live frame drawn.              *)
C7_Pending(frame) ==
    \E i \in 1..Len(segQueue) : segQueue[i].frame = frame /\ segQueue[i].epoch = epoch

C7_NeverUndrawn ==
    (~IsNull(lastFrame) /\ lastFrame[1].segmented /\ ~C7_Pending(lastFrame[1].frame))
    => /\ canvas.frame = Some(lastFrame[1].frame)
       /\ \E i \in 1..Len(canvas.ops) :
             canvas.ops[i] \in {"drawImage:video", "drawImage:personCanvas"}

(* C8: on an enabled 3D render tick whose snapshot has no transformation   *)
(* matrix, a matrix of fewer than 16 components, or a non-finite value     *)
(* among its first 16 components, the smoothed orientation, the target     *)
(* orientation and the 'has rotation' flag are left unchanged, while the   *)
(* position, scale and expression updates of the tick (one that has a face *)
(* box) still take place.                                                  *)
C8_InvalidMatrix(snapshot) ==
    \/ IsNull(snapshot)
    \/ IsNull(snapshot[1].matrix)
    \/ Len(snapshot[1].matrix[1]) < 16
    \/ \E i \in 1..16 : snapshot[1].matrix[1][i] \in {NaN, Infinity, -Infinity}

C8_Weights(snapshot) ==
    IF IsNull(snapshot) \/ IsNull(snapshot[1].blendshapes) THEN <<>>
    ELSE snapshot[1].blendshapes[1]

C8_PrevWeight(name) ==
    IF name \in DOMAIN blendshapeStateRef THEN blendshapeStateRef[name] ELSE 0

C8_Step ==
    (IsTick /\ enable3DAvatar /\ C8_InvalidMatrix(faceSnapshotRef)) =>
       /\ UNCHANGED <<smoothQuatRef, targetQuatRef, hasRotationRef, groupQuat>>
       /\ lastTick'[1].shown =>
            /\ hasPositionRef'
            /\ LET t == lastTick'[1].targetPos[1]
                   u == PositionUpdate(t.pos, t.scale, 100)
               IN smoothPositionRef' = u.pos /\ smoothScaleRef' = u.scale
            /\ \A i \in 1..Len(C8_Weights(faceSnapshotRef)) :
                  LET w == C8_Weights(faceSnapshotRef)[i]
                  IN w.name = "jawOpen" =>
                       blendshapeStateRef'["jawOpen"] =
                          C8_PrevWeight("jawOpen")
                            + ((w.score * 100 - C8_PrevWeight("jawOpen")) * 25) \div 100

C8_RotationSkipped == [][C8_Step]_vars

(* C8 witness: a tick ran on a snapshot whose matrix holds a NaN: the      *)
(* orientation reached on an earlier tick is retained while position and   *)
(* expression state were updated twice.                                    *)
C8_Witness ==
    /\ ~IsNull(lastTick) /\ lastTick[1].enabled /\ lastTick[1].shown
    /\ ~lastTick[1].validMatrix
    /\ ~IsNull(faceSnapshotRef) /\ ~IsNull(faceSnapshotRef[1].matrix)
    /\ \E i \in 1..16 : faceSnapshotRef[1].matrix[1][i] = NaN
    /\ hasRotationRef /\ smoothQuatRef # 0 /\ targetQuatRef = smoothQuatRef
    /\ hasPositionRef
    /\ smoothPositionRef # lastTick[1].targetPos[1].pos
    /\ "jawOpen" \in DOMAIN blendshapeStateRef
    /\ blendshapeStateRef["jawOpen"] > 2000

(* C9: first-frame snap. On the first enabled tick that has a face box     *)
(* (the 'has position' flag still unset) the smoothed position and scale   *)
(* equal the target position and scale exactly; on the first tick with a   *)
(* valid matrix ('has rotation' still unset) the smoothed rotation equals  *)
(* the target rotation exactly; until then the smoothed values are the     *)
(* initial ones, and only such a tick sets the flags.                      *)
C9_TargetQuat(snapshot) ==
    LET m == snapshot[1].matrix[1]
        angle == IF m[1] = 0 THEN (IF m[2] > 0 THEN 90 ELSE 270)
                 ELSE (IF m[1] > 0 THEN 0 ELSE 180)
    IN IF mirrorCamera THEN (360 - angle) % 360 ELSE angle

C9_Step ==
    /\ (IsTick /\ enable3DAvatar /\ lastTick'[1].shown) =>
          /\ ~hasPositionRef =>
                /\ smoothPositionRef' = lastTick'[1].targetPos[1].pos
                /\ smoothScaleRef' = lastTick'[1].targetPos[1].scale
                /\ hasPositionRef'
          /\ (~hasRotationRef /\ ~C8_InvalidMatrix(faceSnapshotRef)) =>
                /\ targetQuatRef' = C9_TargetQuat(faceSnapshotRef)
                /\ smoothQuatRef' = targetQuatRef'
                /\ groupQuat' = targetQuatRef'
                /\ hasRotationRef'
    /\ (~hasPositionRef /\ hasPositionRef') =>
          (IsTick /\ enable3DAvatar /\ lastTick'[1].shown)
    /\ (~hasRotationRef /\ hasRotationRef') =>
          (IsTick /\ enable3DAvatar /\ lastTick'[1].shown
             /\ ~C8_InvalidMatrix(faceSnapshotRef))

C9_Unset ==
    /\ ~hasPositionRef =>
          (smoothPositionRef = [x |-> 0, y |-> 0] /\ smoothScaleRef = 1 * PosScale)
    /\ ~hasRotationRef => (smoothQuatRef = 0 /\ targetQuatRef = 0 /\ groupQuat = 0)

C9_FirstFrameSnap == [][C9_Step]_vars /\ []C9_Unset

(* C9 witness: the last tick was the first one with a face box and with a  *)
(* valid matrix; position, scale and rotation sit on the (non-initial)     *)
(* targets.                                                                *)
C9_Witness ==
    /\ ~IsNull(lastTick) /\ lastTick[1].snapPos /\ lastTick[1].snapRot
    /\ smoothPositionRef = lastTick[1].targetPos[1].pos
    /\ smoothScaleRef = lastTick[1].targetPos[1].scale
    /\ smoothPositionRef # [x |-> 0, y |-> 0] /\ smoothScaleRef # 1 * PosScale
    /\ smoothQuatRef = targetQuatRef /\ smoothQuatRef # 0

(* C10: for a landmark set of at least one point (coordinates normalized,  *)
(* in 0..1) and any frame size, computeFaceBox with padX = padY = 0 and    *)
(* mirror off returns left/top = min x/y times width/height and            *)
(* right/bottom = max x/y times width/height; for any padding >= 0 the     *)
(* unpadded extents underlying the result are those min/max values (held   *)
(* about 1 - x when mirrored). Lengths are in 1/BoxScale pixel.            *)
C10_Min(S) == CHOOSE m \in S : \A v \in S : m <= v
C10_Max(S) == CHOOSE m \in S : \A v \in S : m >= v

C10_ExactBounds ==
    ~IsNull(fbResult) =>
       LET a == fbArgs[1]
           r == fbResult[1]
           xs == {a.landmarks[i].x : i \in 1..Len(a.landmarks)}
           ys == {a.landmarks[i].y : i \in 1..Len(a.landmarks)}
           W == a.frame.width
           H == a.frame.height
           lo == IF a.mirrorX THEN 10 - C10_Max(xs) ELSE C10_Min(xs)
           hi == IF a.mirrorX THEN 10 - C10_Min(xs) ELSE C10_Max(xs)
           top == C10_Min(ys)
           bottom == C10_Max(ys)
       IN /\ (a.padX = 0 /\ a.padY = 0 /\ ~a.mirrorX) =>
                /\ r.x = C10_Min(xs) * W * 10000
                /\ r.y = top * H * 10000
                /\ r.x + r.width = C10_Max(xs) * W * 10000
                /\ r.y + r.height = bottom * H * 10000
          /\ r.width = (hi - lo) * W * 100 * (100 + a.padX)
          /\ 2 * r.x + r.width = (lo + hi) * W * 10000
          /\ r.height = (bottom - top) * H * 100 * (100 + a.padY)
          /\ r.y = top * H * 10000 - (bottom - top) * H * a.padY * a.yShift

(* C10 witness: two distinct points, no padding, mirror off, and the box   *)
(* from (0.3, 0) to (1, 1) of a 640x480 frame was returned.                *)
C10_Witness ==
    /\ ~IsNull(fbResult)
    /\ fbArgs[1].landmarks = <<Pt(3, 10), Pt(10, 0)>>
    /\ fbArgs[1].padX = 0 /\ fbArgs[1].padY = 0 /\ ~fbArgs[1].mirrorX
    /\ fbArgs[1].frame = [width |-> 640, height |-> 480]
    /\ fbResult[1] = [x |-> 1920 * 10000, y |-> 0,
                      width |-> 4480 * 10000, height |-> 4800 * 10000]

(* C11: for any landmark set, frame size and padding, computeFaceBox of    *)
(* the horizontally mirrored set (every x replaced by 1 - x) with mirror   *)
(* off returns the same box as computeFaceBox of the original set with     *)
(* mirror on.                                                              *)
C11_Mirrored(landmarks) ==
    [i \in 1..Len(landmarks) |-> [x |-> 10 - landmarks[i].x, y |-> landmarks[i].y]]

C11_MirrorEquivalence ==
    (~IsNull(fbResult) /\ fbArgs[1].mirrorX) =>
       LET a == fbArgs[1]
       IN fbResult[1] = computeFaceBox(C11_Mirrored(a.landmarks), a.frame.width,
                                       a.frame.height, a.padX, a.padY, a.yShift, FALSE)

(* C11 witness: a two-point set that is not symmetric about x = 0.5 was    *)
(* boxed with mirror on and with padding; its box starts at 0 and is 0.7   *)
(* of the frame wide before padding.                                       *)
C11_Witness ==
    /\ ~IsNull(fbResult) /\ fbArgs[1].mirrorX
    /\ fbArgs[1].landmarks = <<Pt(3, 0), Pt(10, 3)>>
    /\ fbArgs[1].padX = 20 /\ fbArgs[1].frame.width = 640
    /\ fbResult[1].width = 448 * 12000 * 10
    /\ 2 * fbResult[1].x + fbResult[1].width = 448 * 10000 * 10

(* C12: with w, h the tight bounding width and height in pixels and        *)
(* (bx, by) the tight top-left corner, computeFaceBox returns              *)
(* x = bx - (w*padX)/2, width = w*(1+padX), y = by - (h*padY)*yShift,      *)
(* height = h*(1+padY); for the fixture (corners at 0.1 and 0.9, frame     *)
(* 640x480, padX 0.2, padY 0.4, yShift 0.3, mirror off) the result is      *)
(* x = 12.8, y = 1.92, width = 614.4, height = 537.6. Pixels are in tenths *)
(* here, pads in hundredths, results in 1/100000 pixel.                    *)
C12_Fixture ==
    [landmarks |-> <<Pt(5, 5), Pt(1, 1), Pt(9, 1), Pt(1, 9), Pt(9, 9)>>,
     frame |-> [width |-> 640, height |-> 480],
     padX |-> 20, padY |-> 40, yShift |-> 30, mirrorX |-> FALSE]

C12_PaddingFormula ==
    ~IsNull(fbResult) =>
       LET a == fbArgs[1]
           r == fbResult[1]
           n == Len(a.landmarks)
           xs == {IF a.mirrorX THEN 10 - a.landmarks[i].x ELSE a.landmarks[i].x : i \in 1..n}
           ys == {a.landmarks[i].y : i \in 1..n}
           bx == C10_Min(xs) * a.frame.width
           by == C10_Min(ys) * a.frame.height
           w == (C10_Max(xs) - C10_Min(xs)) * a.frame.width
           h == (C10_Max(ys) - C10_Min(ys)) * a.frame.height
       IN /\ 2 * r.x = 2 * bx * 10000 - w * a.padX * 100
          /\ r.width = w * 10000 + w * a.padX * 100
          /\ r.y = by * 10000 - (h * a.padY) * a.yShift
          /\ r.height = h * 10000 + h * a.padY * 100
          /\ a = C12_Fixture =>
                r = [x |-> 1280000, y |-> 192000,
                     width |-> 61440000, height |-> 53760000]

(* C12 witness: the fixture was boxed.                                     *)
C12_Witness ==
    /\ fbArgs = Some(C12_Fixture)
    /\ ~IsNull(fbResult)
    /\ fbResult[1].x = 1280000 /\ fbResult[1].y = 192000

(* A step that ran one composition pass: at once, in the render loop, or   *)
(* in the segmentation callback of a frame of the current mount; the props *)
(* its closure captured and the snapshot it was given.                     *)
ImmediatePass == FrameProcessed /\ ~lastFrame'[1].segmented

DeliveredPass ==
    /\ Len(segQueue) > 0 /\ Len(segQueue') < Len(segQueue)
    /\ mounted /\ Head(segQueue).epoch = epoch

PassStep == ImmediatePass \/ DeliveredPass

PassProps == IF DeliveredPass THEN Head(segQueue).p ELSE Props'

PassSnapshot == IF DeliveredPass THEN Head(segQueue).snapshot ELSE faceSnapshotRef'

(* C13: a face box is produced only from a snapshot with at least one      *)
(* landmark. After every composition pass the stored face box is non-null  *)
(* exactly when the pass was given a snapshot with at least one landmark,  *)
(* and is null otherwise; the 3D overlay derives a box only from such a    *)
(* snapshot; no stored box is the (negative-width) box of an empty list.   *)
C13_HasLandmarks(snapshot) == snapshot # <<>> /\ Len(snapshot[1].landmarks) >= 1

C13_Step ==
    /\ PassStep =>
          /\ (faceBoxRef' # <<>>) <=> C13_HasLandmarks(PassSnapshot)
          /\ canvas'.faceBox = faceBoxRef'
    /\ (~PassStep /\ mounted /\ mounted') => faceBoxRef' = faceBoxRef
    /\ (IsTick /\ enable3DAvatar) =>
          /\ lastTick'[1].derived => C13_HasLandmarks(faceSnapshotRef)
          /\ ~lastTick'[1].derived => UNCHANGED <<lastFaceBoxRef, lastFaceBoxTimeRef>>

C13_Boxes ==
    /\ faceBoxRef # <<>> => faceBoxRef[1].width >= 0 /\ faceBoxRef[1].height >= 0
    /\ lastFaceBoxRef # <<>> => lastFaceBoxRef[1].width >= 0 /\ lastFaceBoxRef[1].height >= 0

C13_BoxOnlyFromLandmarks == [][C13_Step]_vars /\ []C13_Boxes

(* C13 witness: the last composition pass was given a snapshot with no     *)
(* landmarks and left the stored face box null, and the last overlay tick  *)
(* derived no box from such a snapshot and fell back on the box it had.    *)
C13_Witness ==
    /\ canvas.snapshot # <<>> /\ Len(canvas.snapshot[1].landmarks) = 0
    /\ canvas.frame # <<>> /\ faceBoxRef = <<>>
    /\ faceSnapshotRef = canvas.snapshot
    /\ lastTick # <<>> /\ lastTick[1].enabled /\ ~lastTick[1].derived
    /\ lastTick[1].shown /\ lastFaceBoxRef # <<>>

(* The number of operations of a pass that belong to a set.                *)
OpCount(ops, S) == Cardinality({i \in 1..Len(ops) : ops[i] \in S})

MaskBufferOps ==
    {"mask:confidence", "mask:category", "person:clearRect", "person:drawImage:video",
     "person:destination-in:mask", "person:source-over", "drawImage:personCanvas"}

BackgroundLayerOps ==
    MaskBufferOps \cup {"drawImage:backgroundImage", "filter:blur", "drawImage:video",
                        "segmentation.close"}

FaceLayerOps == {"drawImage:faceOverlay", "arc"}

(* C14: with background replacement disabled and the 2D face overlay       *)
(* disabled, every composition pass performs exactly: (save,) clear the    *)
(* canvas, the mirror transform if mirroring is on, one draw of the live   *)
(* frame, restore; no mask or person-cutout buffer is touched and no       *)
(* background image or blur is drawn.                                      *)
C14_Step ==
    (PassStep /\ ~PassProps.ebg /\ ~PassProps.efs) =>
       /\ canvas'.ops =
             IF PassProps.mirror
             THEN <<"save", "clearRect", "scale(-1,1)", "translate(-width,0)",
                    "drawImage:video", "restore">>
             ELSE <<"save", "clearRect", "drawImage:video", "restore">>
       /\ canvas'.frame # <<>> /\ canvas'.frame[1].videoTime = videoTime

C14_DirectDraw == [][C14_Step]_vars

(* C14 witness: both features off, no mirror, and the last pass drew the   *)
(* plain frame although it was given a snapshot with landmarks.            *)
C14_Witness ==
    /\ ~enableBackgroundReplace /\ ~enableFaceSwap /\ ~mirrorCamera
    /\ canvas.frame # <<>> /\ canvas.frame[1].videoTime = 1
    /\ canvas.snapshot # <<>> /\ Len(canvas.snapshot[1].landmarks) = 2
    /\ canvas.ops = <<"save", "clearRect", "drawImage:video", "restore">>

(* C15: in every composition pass, on every branch, the operations come in *)
(* this order: save and clear, the mirror transform (if on), the whole     *)
(* background layer (background image or blurred frame, then the person    *)
(* cutout; or the plain live frame), the face layer, restore. The mirror    *)
(* transform is in effect for both layers, and save / restore are balanced.*)
C15_LayerOpsAll == BackgroundLayerOps \cup FaceLayerOps \cup {"save", "restore"}

C15_Ordered(ops, p) ==
    LET n == Len(ops)
        first == IF p.mirror THEN 5 ELSE 3
        At(S) == {i \in 1..n : ops[i] \in S}
        saves == At({"save"})
        restores == At({"restore"})
        faces == At(FaceLayerOps)
        backs == At(BackgroundLayerOps) \cup saves
        videos == At({"drawImage:video"})
        cutouts == At({"drawImage:personCanvas"})
        images == At({"drawImage:backgroundImage"})
        blurs == At({"filter:blur"})
    IN /\ n >= first + 1
       /\ ops[1] = "save" /\ ops[2] = "clearRect" /\ ops[n] = "restore"
       /\ At({"scale(-1,1)"}) = (IF p.mirror THEN {3} ELSE {})
       /\ At({"translate(-width,0)"}) = (IF p.mirror THEN {4} ELSE {})
       /\ At({"clearRect"}) = {2}
       /\ \A i \in first..(n - 1) : ops[i] \in C15_LayerOpsAll
       /\ Cardinality(saves) = Cardinality(restores)
       /\ \A r \in restores \ {n} :
             Cardinality({i \in saves : i < r}) > Cardinality({i \in restores : i <= r})
       /\ \A i \in faces : \A k \in backs : k < i
       /\ \/ /\ Cardinality(videos) = 1
             /\ cutouts = {} /\ images = {} /\ blurs = {}
          \/ /\ Cardinality(cutouts) = 1
             /\ \E k \in images \cup {v \in videos : v - 1 \in blurs} :
                   \A c \in cutouts : k < c

C15_Step == PassStep => C15_Ordered(canvas'.ops, PassProps)

C15_LayerOrder == [][C15_Step]_vars

(* C15 witness: a mirrored pass with a blurred background, the person      *)
(* cutout and one debug marker per landmark.                               *)
C15_Witness ==
    /\ canvas.ops = <<"save", "clearRect", "scale(-1,1)", "translate(-width,0)",
                      "mask:confidence", "save", "filter:blur", "drawImage:video",
                      "restore", "person:clearRect", "person:drawImage:video",
                      "person:destination-in:mask", "person:source-over",
                      "drawImage:personCanvas", "segmentation.close",
                      "arc", "arc", "restore">>
    /\ canvas.frame # <<>>

(* C16: face layer of a pass. With the 2D overlay enabled and a face box   *)
(* derived, the uploaded image is drawn once, stretched to the face box    *)
(* (the box of the snapshot's landmarks with the 0.2 / 0.4 / 0.3 profile), *)
(* when an image is uploaded, and otherwise one marker per landmark is     *)
(* drawn; with the overlay disabled or no face box, nothing is drawn in    *)
(* the face layer.                                                         *)
C16_Step ==
    PassStep =>
       LET p == PassProps
           snap == PassSnapshot
           ops == canvas'.ops
           box == canvas'.faceBox
       IN /\ box # <<>> =>
                box[1] = computeFaceBox(snap[1].landmarks, canvasSize'.width,
                                        canvasSize'.height, 20, 40, 30, p.mirror)
          /\ IF p.efs /\ box # <<>>
             THEN IF p.faceImg
                  THEN /\ OpCount(ops, {"drawImage:faceOverlay"}) = 1
                       /\ OpCount(ops, {"arc"}) = 0
                  ELSE /\ OpCount(ops, {"arc"}) = Len(snap[1].landmarks)
                       /\ OpCount(ops, {"drawImage:faceOverlay"}) = 0
             ELSE OpCount(ops, FaceLayerOps) = 0

C16_FaceLayer == [][C16_Step]_vars

(* C16 witness: the overlay is on with an uploaded image, the snapshot     *)
(* that arrived at 601 ms was cleared by the frame at 1202 ms, and that    *)
(* frame's pass drew nothing in the face layer.                            *)
C16_Witness ==
    /\ enableFaceSwap /\ faceOverlayImage
    /\ lastFaceResultTimeRef = 601 /\ faceSnapshotRef = <<>>
    /\ canvas.frame # <<>> /\ canvas.frame[1].time = 1202
    /\ canvas.snapshot = <<>> /\ canvas.faceBox = <<>>
    /\ OpCount(canvas.ops, FaceLayerOps) = 0

(* C17 as claimed: every segmentation result delivered to the compositor   *)
(* is closed exactly once by the end of the pass that received it, on      *)
(* every branch, and is not read after being closed.                       *)
C17_Step ==
    DeliveredPass =>
       LET ops == canvas'.ops
       IN /\ OpCount(ops, {"segmentation.close"}) = 1
          /\ \A i, j \in 1..Len(ops) :
                (ops[i] = "segmentation.close"
                   /\ ops[j] \in {"mask:confidence", "mask:category"}) => j < i

C17_ReleasedOnce == [][C17_Step]_vars

(* ------------------------------------------------------------------------ *)
(* Specification of initialize() with its delegate fallback.                *)
NextDelegates ==
    \/ Mount
    \/ Unmount
    \/ \E k \in 1..MaxMounts, ok \in BOOLEAN, e \in BOOLEAN, m \in RenderModes :
          InitVision(k, ok, e, m)
    \/ \E k \in 1..MaxMounts, f \in CreateFns : InitCreate(k, f)
    \/ \E k \in 1..MaxMounts : InitSettle(k, DetResultsFace)

SpecDelegates == Init /\ [][NextDelegates]_vars

(* ------------------------------------------------------------------------ *)
(* Specification of the render-on-demand 3D overlay: the 3D toggle, the     *)
(* interval timer and the frames rendered on demand.                        *)
NextOverlay ==
    \/ Toggle3DOverlay(DetResultsFace)
    \/ IntervalFire
    \/ \E delta \in Deltas : DemandFrame(delta)
    \/ RenderLoop(DetResultsFace)
    \/ VideoAdvance

SpecOverlay == InitCompose /\ [][NextOverlay]_vars

(* C18: initialization is idempotent. Once both the face detector and the  *)
(* segmenter have been created, every later initialize() call returns at   *)
(* once: it creates no detector, starts no load, and both detectors (and   *)
(* the in-progress flag) stay as they are.                                 *)
C18_Ready == faceLandmarker /\ imageSegmenter

C18_Step ==
    C18_Ready =>
       /\ faceLandmarker' /\ imageSegmenter'
       /\ svcIsInitializing' = svcIsInitializing
       /\ \A k \in 1..MaxMounts :
             (initCalls[k].pc = "idle" /\ initCalls'[k].pc # "idle")
                => initCalls'[k].pc = "resolved"

C18_NoLoad ==
    C18_Ready =>
       /\ ~svcIsInitializing
       /\ \A k \in 1..MaxMounts : initCalls[k].pc \notin {"vision", "face", "segmenter"}

C18_Idempotent == [][C18_Step]_vars /\ []C18_NoLoad

(* C18 witness: the second mount's initialize() call was issued and        *)
(* settled with both detectors in place, and the component left its        *)
(* initializing state without an error.                                    *)
C18_Witness ==
    /\ C18_Ready /\ mounted /\ epoch = 2
    /\ initCalls[1].pc = "done" /\ initCalls[2].pc = "done"
    /\ ~isInitializing /\ ~initError /\ ~svcIsInitializing

(* C19: creating a detector over the acceleration-mode list tries the      *)
(* modes in list order, the hardware-accelerated mode (when listed) first  *)
(* and the software mode last; it returns the first success without trying *)
(* later modes, and raises an error only if every listed mode failed, the  *)
(* error being that of the last mode tried.  When initialize() fails this  *)
(* way its in-progress flag is reset, and a later initialize() call starts *)
(* the load again.                                                         *)
C19_Create ==
    ~IsNull(lastCreate) =>
       LET r == lastCreate[1]
           n == Len(r.tried)
       IN /\ r.delegates \in {<<"GPU", "CPU">>, <<"CPU">>}
          /\ n \in 1..Len(r.delegates)
          /\ r.tried = SubSeq(r.delegates, 1, n)
          /\ \A i \in 1..(n - 1) : ~r.createFn[r.tried[i]]
          /\ r.ok = r.createFn[r.tried[n]]
          /\ r.ok => r.value = r.tried[n]
          /\ r.ok <=> (\E i \in 1..Len(r.delegates) : r.createFn[r.delegates[i]])
          /\ ~r.ok => (r.tried = r.delegates /\ r.error = r.delegates[Len(r.delegates)])

C19_Step ==
    /\ (lastCreate' # lastCreate /\ ~lastCreate'[1].ok) =>
          /\ ~svcIsInitializing'
          /\ initCalls'[lastCreate'[1].call].pc = "rejected"
    /\ (lastCreate' # lastCreate /\ lastCreate'[1].ok) =>
          initCalls'[lastCreate'[1].call].pc \in {"segmenter", "resolved"}
    /\ (~mounted /\ mounted' /\ ~svcIsInitializing
          /\ ~(faceLandmarker /\ imageSegmenter)) =>
          (initCalls'[epoch'].pc = "vision" /\ svcIsInitializing')

C19_DelegateFallback == [][C19_Step]_vars /\ []C19_Create

(* C19 witness: every listed mode failed for the first call, GPU and then  *)
(* CPU, the error is that of CPU, and the second call is retrying.         *)
C19_Witness ==
    /\ ~IsNull(lastCreate)
    /\ lastCreate[1].call = 1 /\ ~lastCreate[1].ok
    /\ lastCreate[1].tried = <<"GPU", "CPU">> /\ lastCreate[1].error = "CPU"
    /\ initCalls[1].pc \in {"rejected", "done"}
    /\ epoch = 2 /\ initCalls[2].pc = "face"

(* C20 as claimed: if initialization has failed, the mounted pipeline      *)
(* whose initialize() call has settled is in the error state (init error   *)
(* set, 'initializing' cleared), and from then on no processed frame       *)
(* invokes face detection or segmentation; the error state is never set    *)
(* while both detectors exist.                                             *)
C20_ServiceFailed ==
    /\ ~svcIsInitializing
    /\ ~(faceLandmarker /\ imageSegmenter)
    /\ \E k \in 1..MaxMounts : initCalls[k].pc # "idle"

C20_Inv ==
    /\ (C20_ServiceFailed /\ mounted /\ initCalls[epoch].pc = "done")
          => (initError /\ ~isInitializing)
    /\ initError => ~(faceLandmarker /\ imageSegmenter)

C20_Step ==
    (FrameProcessed /\ C20_ServiceFailed)
       => (~lastFrame'[1].detected /\ ~lastFrame'[1].segmented)

C20_ErrorState == [][C20_Step]_vars /\ []C20_Inv

(* C21 as claimed: absence of a detection is never an error.  While the    *)
(* detector is missing detectFace returns none, and a result without a     *)
(* face builds no snapshot; a processed frame that yields no snapshot      *)
(* goes through the hold policy, enters no error state, and has been       *)
(* composited once no segmentation callback is pending for it.             *)
C21_Step ==
    (FrameProcessed /\ ~lastFrame'[1].yielded) =>
       /\ faceSnapshotRef' = HoldPolicy(Props', Null, now)
       /\ lastFaceResultTimeRef' = lastFaceResultTimeRef
       /\ ~initError' /\ ~isInitializing'

C21_Inv ==
    /\ ~faceLandmarker => \A det \in DetResultsHold : IsNull(detectFace(det))
    /\ IsNull(buildFaceSnapshot(NoFaceResult, now))
    /\ (~IsNull(lastFrame) /\ ~lastFrame[1].yielded /\ ~C7_Pending(lastFrame[1].frame))
          => canvas.frame = Some(lastFrame[1].frame)

C21_AbsenceComposited == [][C21_Step]_vars /\ []C21_Inv

(* C22: disabling a feature flag makes the next processed frame skip that  *)
(* stage: a processed frame invokes segmentation only while background     *)
(* replacement is on, and face detection only while the 2D overlay or the  *)
(* 3D avatar is on.  A call already made is not cancelled: switching a     *)
(* flag leaves the pending segmentation callbacks in place, and a callback *)
(* that arrives afterwards still composites its frame.                     *)
C22_FlagsChanged ==
    \/ enableBackgroundReplace' # enableBackgroundReplace
    \/ enableFaceSwap' # enableFaceSwap
    \/ enable3DAvatar' # enable3DAvatar

C22_Step ==
    /\ FrameProcessed =>
          /\ lastFrame'[1].segmented = enableBackgroundReplace'
          /\ lastFrame'[1].detected = (enableFaceSwap' \/ enable3DAvatar')
    /\ (C22_FlagsChanged /\ mounted) =>
          \A i \in 1..Len(segQueue) : segQueue'[i] = segQueue[i]
    /\ DeliveredPass =>
          /\ canvas'.frame = Some(Head(segQueue).frame)
          /\ canvas'.snapshot = Head(segQueue).snapshot

C22_SkipWhenOff == [][C22_Step]_vars

(* C22 witness: with every flag off again, a frame was processed without   *)
(* detection and without segmentation, after an earlier frame had both,    *)
(* and the earlier frame's segmentation callback is still pending.         *)
C22_Witness ==
    /\ ~enableBackgroundReplace /\ ~enableFaceSwap /\ ~enable3DAvatar
    /\ ~IsNull(lastFrame) /\ ~lastFrame[1].segmented /\ ~lastFrame[1].detected
    /\ Len(segQueue) > 0
    /\ Head(segQueue).frame.videoTime < lastFrame[1].frame.videoTime
    /\ detectedTimes # {} /\ segmentedTimes # {}

(* C23 as claimed: the 3D overlay renders on demand.  A 3D frame is        *)
(* rendered only when one was requested by an invalidation; while the      *)
(* overlay is enabled exactly one interval timer exists, while it is       *)
(* disabled none; every enable transition and every disable transition     *)
(* issues an invalidation.                                                 *)
C23_Timers ==
    intervals = IF mounted /\ has3DInitialized /\ enable3DAvatar THEN 1 ELSE 0

C23_OnDemand == tickCount' # tickCount => (frames > 0 /\ frames' = frames - 1)

C23_Enabling == ~enable3DAvatar /\ enable3DAvatar'

C23_Disabling == enable3DAvatar /\ ~enable3DAvatar'

C23_StepClaimed ==
    /\ C23_OnDemand
    /\ C23_Enabling => frames' = frames + 1
    /\ C23_Disabling => frames' = frames + 1

C23_InvalidateOnBoth == [][C23_StepClaimed]_vars /\ []C23_Timers

(* C23, amended: as above, but only an enable transition issues an         *)
(* invalidation; a disable transition clears the timer and requests no     *)
(* frame.                                                                  *)
C23_Step ==
    /\ C23_OnDemand
    /\ C23_Enabling => (frames' = frames + 1 /\ intervals' = 1)
    /\ C23_Disabling => (frames' = frames /\ intervals' = 0)

C23_RenderOnDemand == [][C23_Step]_vars /\ []C23_Timers

(* C23 witness: the overlay was enabled, rendered a requested frame, and   *)
(* was disabled again: no timer is left and no frame is requested.         *)
C23_Witness ==
    /\ has3DInitialized /\ ~enable3DAvatar
    /\ intervals = 0 /\ frames = 0 /\ tickCount > 0
    /\ ~IsNull(lastTick) /\ lastTick[1].enabled

(* C24: the 3D overlay tolerates missing inputs and writes nothing back.   *)
(* On every tick where it is disabled, or the frame width or height is     *)
(* zero, or neither a current nor a held face box is available, the group  *)
(* is hidden and the smoothed position, scale, rotation and expression     *)
(* state are unchanged; no tick changes the shared snapshot slot or the    *)
(* shared frame size.                                                      *)
C24_HeldBox == ~IsNull(lastFaceBoxRef) /\ now - lastFaceBoxTimeRef < 1500

C24_Missing ==
    \/ ~enable3DAvatar
    \/ frameSizeRef.width = 0 \/ frameSizeRef.height = 0
    \/ (~C5_Derivable /\ ~C24_HeldBox)

C24_Step ==
    tickCount' # tickCount =>
       /\ UNCHANGED <<faceSnapshotRef, frameSizeRef>>
       /\ C24_Missing =>
            /\ ~groupVisible'
            /\ UNCHANGED <<hasPositionRef, smoothPositionRef, smoothScaleRef,
                           hasRotationRef, targetQuatRef, smoothQuatRef, groupQuat,
                           blendshapeStateRef, morphInfluences>>

C24_ToleratesMissing == [][C24_Step]_vars

(* C24 witness: a disabled tick hid the group while a smoothed pose and   *)
(* expression state were held and the snapshot slot was filled.            *)
C24_Witness ==
    /\ ~IsNull(lastTick) /\ ~lastTick[1].enabled /\ ~groupVisible
    /\ hasPositionRef /\ hasRotationRef /\ blendshapeStateRef # <<>>
    /\ ~IsNull(faceSnapshotRef)

(* C25: the snapshot builder is a pure transform.  It returns none exactly *)
(* when the raw result has no face; otherwise the snapshot has the first   *)
(* face's landmarks in the same order and count, the given timestamp, the  *)
(* first face's expression weights copied unchanged, and a matrix iff the  *)
(* raw matrix (a flat list, or the buffer of a wrapper) has at least 16    *)
(* components, the matrix then being exactly its first 16 components.      *)
C25_RawComponents(result) ==
    IF result.matrixes = <<>> \/ result.matrixes[1] = <<>> THEN <<>>
    ELSE LET raw == result.matrixes[1][1]
         IN IF raw.isArray \/ raw.hasData THEN raw.elems ELSE <<>>

C25_RawWeights(result) ==
    IF result.blendshapes = <<>> \/ result.blendshapes[1] = <<>> THEN <<>>
    ELSE <<result.blendshapes[1][1]>>

C25_PureTransform ==
    bsResult # <<>> =>
       LET result == bsArgs[1].result
           out == bsResult[1]
           comps == C25_RawComponents(result)
           weights == C25_RawWeights(result)
       IN /\ (out = <<>>) <=> (result.faceLandmarks = <<>>)
          /\ out # <<>> =>
               LET snap == out[1]
                   face == result.faceLandmarks[1]
               IN /\ Len(snap.landmarks) = Len(face)
                  /\ \A i \in 1..Len(face) :
                        snap.landmarks[i].x = face[i].x /\ snap.landmarks[i].y = face[i].y
                  /\ snap.timestamp = bsArgs[1].timestamp
                  /\ (snap.blendshapes = <<>>) <=> (weights = <<>>)
                  /\ weights # <<>> =>
                        /\ Len(snap.blendshapes[1]) = Len(weights[1])
                        /\ \A i \in 1..Len(weights[1]) :
                              /\ snap.blendshapes[1][i].name = weights[1][i].name
                              /\ snap.blendshapes[1][i].score = weights[1][i].score
                  /\ (snap.matrix # <<>>) <=> (Len(comps) >= 16)
                  /\ Len(comps) >= 16 =>
                        /\ Len(snap.matrix[1]) = 16
                        /\ \A i \in 1..16 : snap.matrix[1][i] = comps[i]

(* C25 witness: a snapshot built from a two-face result whose wrapped      *)
(* 17-component matrix was cut to 16 and whose out-of-range weights were   *)
(* copied as they are.                                                     *)
C25_Witness ==
    /\ bsResult # <<>> /\ bsResult[1] # <<>>
    /\ Len(bsArgs[1].result.faceLandmarks) = 2
    /\ bsResult[1][1].landmarks = FaceB
    /\ bsResult[1][1].matrix = Some(SubSeq(RotZ180x2, 1, 16))
    /\ bsResult[1][1].blendshapes # <<>>
    /\ bsResult[1][1].blendshapes[1][1].score = 150
    /\ bsResult[1][1].timestamp = 700

(* C26: the expression weights applied to the model are always within      *)
(* [0,1], whatever the input weights and the history; the first update of  *)
(* a named weight interpolates from a prior value of 0; a weight whose     *)
(* name is not in the model's morph-target dictionary changes neither the  *)
(* model nor the smoothing state.                                          *)
C26_Range ==
    /\ \A n \in DOMAIN morphInfluences :
          morphInfluences[n] >= 0 /\ morphInfluences[n] <= WeightScale
    /\ DOMAIN morphInfluences = MorphTargetDictionary
    /\ DOMAIN blendshapeStateRef \subseteq MorphTargetDictionary

C26_Shapes ==
    IF faceSnapshotRef = <<>> \/ faceSnapshotRef[1].blendshapes = <<>> THEN <<>>
    ELSE faceSnapshotRef[1].blendshapes[1]

C26_FromZero(shape) ==
    LET eye == shape.name \in {"eyeLookInLeft", "eyeLookOutRight"}
        target == IF eye THEN shape.score * 40 ELSE shape.score * 100
        rate == IF eye THEN 15 ELSE 25
    IN TruncDiv(target * rate, 100)

C26_Step ==
    (tickCount' # tickCount /\ lastTick'[1].shown) =>
       /\ \A i \in 1..Len(C26_Shapes) :
             LET shape == C26_Shapes[i]
             IN (shape.name \in MorphTargetDictionary
                   /\ shape.name \notin DOMAIN blendshapeStateRef)
                => /\ blendshapeStateRef'[shape.name] = C26_FromZero(shape)
                   /\ morphInfluences'[shape.name] =
                        MinOf(WeightScale, MaxOf(0, C26_FromZero(shape)))
       /\ (\A i \in 1..Len(C26_Shapes) : C26_Shapes[i].name \notin MorphTargetDictionary)
             => UNCHANGED <<blendshapeStateRef, morphInfluences>>

C26_WeightsClamped == [][C26_Step]_vars /\ []C26_Range

(* C26 witness: a weight above 1 was applied as 1 and a weight below 0 as  *)
(* 0, the smoothing state holding the unclamped values.                    *)
C26_Witness ==
    /\ DOMAIN blendshapeStateRef = MorphTargetDictionary
    /\ blendshapeStateRef["jawOpen"] > WeightScale
    /\ morphInfluences["jawOpen"] = WeightScale
    /\ blendshapeStateRef["eyeLookInLeft"] < 0
    /\ morphInfluences["eyeLookInLeft"] = 0

(* A delivered pass that took the mask branch of background replacement    *)
(* and could not acquire a drawing context of the mask or person buffer:   *)
(* the segmentation was released, and no buffer was written.               *)
C27_ContextFailed ==
    /\ DeliveredPass /\ PassProps.ebg
    /\ OpCount(canvas'.ops, {"segmentation.close"}) = 1
    /\ OpCount(canvas'.ops, {"mask:confidence", "mask:category"}) = 0

C27_LiveFrame ==
    /\ OpCount(canvas'.ops, {"drawImage:video"}) = 1
    /\ OpCount(canvas'.ops, MaskBufferOps
                  \cup {"drawImage:backgroundImage", "filter:blur"}) = 0

(* C27 as claimed: when acquiring the drawing context of an offscreen      *)
(* buffer fails during background replacement, the pass draws the live     *)
(* frame directly and draws no overlay in that frame.                      *)
C27_StepClaimed ==
    C27_ContextFailed =>
       (C27_LiveFrame /\ OpCount(canvas'.ops, FaceLayerOps) = 0)

C27_NoOverlay == [][C27_StepClaimed]_vars

(* C27, amended: such a pass draws the live frame directly, with no        *)
(* background and no person cutout, and then draws the face layer as any   *)
(* other pass does: the uploaded image or the landmark markers when the 2D *)
(* overlay is on and a face box was derived, nothing otherwise.            *)
C27_Step ==
    C27_ContextFailed =>
       /\ C27_LiveFrame
       /\ IF PassProps.efs /\ canvas'.faceBox # <<>>
          THEN IF PassProps.faceImg
               THEN OpCount(canvas'.ops, {"drawImage:faceOverlay"}) = 1
               ELSE OpCount(canvas'.ops, {"arc"}) = Len(PassSnapshot[1].landmarks)
          ELSE OpCount(canvas'.ops, FaceLayerOps) = 0

C27_ContextFallback == [][C27_Step]_vars

(* C27 witness: a pass without offscreen context drew the live frame and   *)
(* the uploaded face image over it.                                        *)
C27_Witness ==
    /\ OpCount(canvas.ops, {"segmentation.close"}) = 1
    /\ OpCount(canvas.ops, {"mask:confidence", "mask:category"}) = 0
    /\ OpCount(canvas.ops, {"drawImage:video"}) = 1
    /\ OpCount(canvas.ops, {"drawImage:faceOverlay"}) = 1

(* A step in which the mounted camera hook received app:renderer-resume.   *)
C29_Signal == hookMounted /\ signals' = signals + 1

C29_Restarted ==
    /\ streamRef' = <<>>
    /\ streamRef # <<>> => streamRef[1] \notin liveStreams'
    /\ requests' = requests + 1

(* C29 as claimed: every resume signal received while the camera hook is   *)
(* mounted stops the current stream and requests a new one.                *)
C29_StepClaimed == C29_Signal => C29_Restarted

C29_EverySignalRestarts == [][C29_StepClaimed]_vars

(* C29, amended: a resume signal received while the hook is mounted stops  *)
(* the current stream and requests a new one unless a restart began less   *)
(* than 1500 ms earlier; in that case the signal changes nothing.          *)
C29_Step ==
    C29_Signal =>
       IF dateNow - lastRestartAtRef >= 1500
       THEN C29_Restarted /\ lastRestartAtRef' = dateNow
       ELSE UNCHANGED <<streamRef, liveStreams, requests, lastRestartAtRef>>

C29_ResumeRestarts == [][C29_Step]_vars

(* C29 witness: a resume signal 1500 ms after the previous restart stopped *)
(* the stream in use, and the stream requested by it is now the only one   *)
(* running.                                                                *)
C29_Witness ==
    /\ hookMounted /\ signals >= 2
    /\ lastRestartAtRef = dateNow /\ dateNow = DateStart + 1500
    /\ streamRef # <<>> /\ streamRef[1] >= 2
    /\ liveStreams = {streamRef[1]}

(* The signed distances still to go in a smoothing run, one for each       *)
(* smoothed quantity, with the rate constant that drives it and the        *)
(* distance the run started with.                                          *)
C28_Channels ==
    LET r == smoothRun[1]
    IN <<[k |-> positionSmoothing, d |-> r.targetPos.x - smoothPositionRef.x,
          d0 |-> r.targetPos.x - r.start.pos.x],
         [k |-> positionSmoothing, d |-> r.targetPos.y - smoothPositionRef.y,
          d0 |-> r.targetPos.y - r.start.pos.y],
         [k |-> scaleSmoothing, d |-> r.boxScale - smoothScaleRef,
          d0 |-> r.boxScale - r.start.scale],
         [k |-> rotationSmoothing, d |-> ShortArc(smoothQuatRef, targetQuatRef),
          d0 |-> ShortArc(r.start.quat, targetQuatRef)]>>

(* 1000 * e^(-k*dt), and the factor 1 - e^(-k*dt) in thousandths.          *)
C28_Decay(k, delta) ==
    CASE k * delta = 0 -> 1000
      [] k * delta = 160 -> 852
      [] k * delta = 192 -> 825
      [] k * delta = 1000 -> 368
      [] k * delta = 1200 -> 301

(* The number of steps after which d0 * e^(-k*dt*n) is at most limit, both *)
(* in hundredths of a unit: a function of k, dt and the two distances.     *)
RECURSIVE C28_StepBound(_, _, _)
C28_StepBound(decay, e, limit) ==
    IF e <= limit THEN 0
    ELSE 1 + C28_StepBound(decay, (e * decay + 999) \div 1000, limit)

(* Values are whole units, so a step rounds by less than one unit and a    *)
(* run by less than 1 / (1 - e^(-k*dt)) units in all.                      *)
C28_Rounding(decay) == (1000 + (1000 - decay) - 1) \div (1000 - decay)

C28_Epsilons == {16, 100}

C28_Within(c, decay, eps, steps) ==
    steps >= C28_StepBound(decay, Abs(c.d0) * 100, (eps - C28_Rounding(decay)) * 100)
       => Abs(c.d) < eps

(* One frame of the run: the factor lies in [0,1), the distance does not   *)
(* grow, the value stays on its side of the target, and the distance left  *)
(* is e^(-k*dt) times the distance before, to the unit.                    *)
C28_Step ==
    (smoothRun # <<>> /\ smoothRun' # smoothRun) =>
       \A i \in 1..4 :
          LET c == C28_Channels[i]
              dn == C28_Channels'[i].d
              decay == C28_Decay(c.k, smoothRun[1].delta)
          IN /\ 1000 - decay >= 0 /\ 1000 - decay < 1000
             /\ Abs(dn) <= Abs(c.d)
             /\ c.d * dn >= 0
             /\ Abs(dn * 1000 - c.d * decay) < 1000

(* C28 as claimed: for every frame interval >= 0 the distance is below     *)
(* each epsilon after a number of frames fixed by k, dt and the starting   *)
(* distance; with no decay at all the longest run stands for that number.  *)
C28_ConvergedAny ==
    smoothRun # <<>> =>
       \A i \in 1..4 : \A eps \in C28_Epsilons :
          LET c == C28_Channels[i]
              decay == C28_Decay(c.k, smoothRun[1].delta)
          IN IF decay < 1000
             THEN C28_Within(c, decay, eps, smoothRun[1].steps)
             ELSE smoothRun[1].steps >= MaxSmoothSteps => Abs(c.d) < eps

C28_ConvergesAnyInterval == [][C28_Step]_vars /\ []C28_ConvergedAny

(* C28, amended: with a fixed target and a fixed frame interval, every     *)
(* smoothing step of position, scale and rotation moves the value toward   *)
(* the target by the factor 1 - e^(-k*dt) in [0,1), never increasing the   *)
(* distance and never overshooting; when the interval is greater than 0    *)
(* the distance is below a given epsilon after a number of steps fixed by  *)
(* k, dt and the starting distance, and with an interval of 0 the value    *)
(* does not move at all.                                                   *)
C28_Converged ==
    smoothRun # <<>> =>
       \A i \in 1..4 : \A eps \in C28_Epsilons :
          LET c == C28_Channels[i]
              decay == C28_Decay(c.k, smoothRun[1].delta)
          IN IF decay < 1000
             THEN C28_Within(c, decay, eps, smoothRun[1].steps)
             ELSE c.d = c.d0

C28_SmoothingConverges == [][C28_Step]_vars /\ []C28_Converged

(* C28 witness: a run at 16 ms per frame that started 3040 units from the  *)
(* target position and half a turn from the target rotation has used the   *)
(* frames its bound allows and is within 16 units on every quantity.       *)
C28_Witness ==
    /\ smoothRun # <<>>
    /\ smoothRun[1].delta = 16
    /\ Abs(C28_Channels[1].d0) = 3040
    /\ Abs(C28_Channels[4].d0) = 180
    /\ smoothRun[1].steps = C28_StepBound(825, 304000, (16 - C28_Rounding(825)) * 100)
    /\ \A i \in 1..4 : Abs(C28_Channels[i].d) < 16

(* A step that runs the mask branch of a composition pass.                 *)
C30_Pass ==
    /\ Len(segQueue) > 0 /\ Len(segQueue') < Len(segQueue)
    /\ mounted /\ Head(segQueue).epoch = epoch
    /\ OpCount(canvas'.ops, {"segmentation.close"}) = 1

C30_Size(ref) == IF ref = <<>> THEN DefaultCanvasSize ELSE ref[1]

(* What one pass may do to one buffer that is asked to have size asked:    *)
(* create it only if there was none, write its dimensions only if the      *)
(* size it had differs, and leave it with the size asked for.              *)
C30_Ensured(before, after, countBefore, countAfter, entry, asked) ==
    /\ entry.asked = asked
    /\ after = <<asked>>
    /\ countAfter = countBefore + (IF before = <<>> THEN 1 ELSE 0)
    /\ entry.wrote => C30_Size(before) # asked
    /\ entry.found = C30_Size(before)

C30_Step ==
    IF C30_Pass
    THEN /\ lastEnsure' # <<>>
         /\ lastEnsure'[1].mask.asked \in MaskSizes
         /\ C30_Ensured(maskCanvasRef, maskCanvasRef', canvasesCreated.mask,
                        canvasesCreated'.mask, lastEnsure'[1].mask,
                        lastEnsure'[1].mask.asked)
         /\ C30_Ensured(personCanvasRef, personCanvasRef', canvasesCreated.person,
                        canvasesCreated'.person, lastEnsure'[1].person, canvasSize)
    ELSE UNCHANGED <<maskCanvasRef, personCanvasRef, canvasesCreated, lastEnsure>>

C30_Inv ==
    /\ canvasesCreated.mask <= 1
    /\ canvasesCreated.person <= 1
    /\ canvasesCreated.mask = (IF maskCanvasRef = <<>> THEN 0 ELSE 1)
    /\ canvasesCreated.person = (IF personCanvasRef = <<>> THEN 0 ELSE 1)

(* C30: over any sequence of composition passes each offscreen buffer is   *)
(* created at most once, its dimensions are written only in a pass that    *)
(* asks for a width or height other than the one it has, and after the     *)
(* pass the mask buffer has the mask's resolution and the person buffer    *)
(* the canvas's resolution.                                                *)
C30_BuffersReused == [][C30_Step]_vars /\ []C30_Inv

(* C30 witness: a pass later than the one that created the buffers found   *)
(* the mask buffer at the size asked and wrote nothing to it, and found    *)
(* the person buffer at the old canvas size and resized it.                *)
C30_Witness ==
    /\ lastEnsure # <<>>
    /\ canvasesCreated = [mask |-> 1, person |-> 1]
    /\ lastEnsure[1].mask.found = [width |-> 256, height |-> 144]
    /\ ~lastEnsure[1].mask.wrote
    /\ lastEnsure[1].person.found = [width |-> 640, height |-> 480]
    /\ lastEnsure[1].person.wrote
    /\ personCanvasRef = <<[width |-> 320, height |-> 240]>>

(* The horizontal extent of the face in the displayed video: its landmarks *)
(* lie at x * width of the video frame, which is drawn over the whole      *)
(* canvas through the pass's transform. In units of 1/BoxScale pixel.      *)
C31_FaceOnScreen ==
    LET e == ScanLandmarks(canvas.snapshot[1].landmarks, 1,
                           [minX |-> CoordScale, minY |-> CoordScale,
                            maxX |-> 0, maxY |-> 0])
    IN ScreenExtent(canvas.ops, e.minX * canvasSize.width * PadScale * PadScale,
                    e.maxX * canvasSize.width * PadScale * PadScale,
                    canvasSize.width * BoxScale)

(* The horizontal extent of the drawn overlay image on the screen, with    *)
(* the padding (which is even on both sides) taken off.                    *)
C31_OverlayOnScreen ==
    LET box == canvas.faceBox[1]
        bare == (box.width \div (PadScale + compPadX)) * PadScale
        lo == box.x + (box.width - bare) \div 2
    IN ScreenExtent(canvas.ops, lo, lo + bare, canvasSize.width * BoxScale)

(* C31: for either mirror setting the 2D overlay image lands on the        *)
(* displayed face: whenever a pass drew the overlay image, its on-screen   *)
(* horizontal extent without padding is the on-screen horizontal extent of *)
(* the face's landmarks in the displayed video.                            *)
C31_OverlayOnFace ==
    OpCount(canvas.ops, {"drawImage:faceOverlay"}) = 1
       => C31_OverlayOnScreen = C31_FaceOnScreen

(* A step in which a segmentation callback of the mounted component runs   *)
(* its composition pass.                                                   *)
C32_Delivery ==
    /\ Len(segQueue) > 0 /\ Len(segQueue') < Len(segQueue)
    /\ mounted /\ Head(segQueue).epoch = epoch

(* C32: with segmentation results delivered asynchronously, once per call  *)
(* and in submission order, every composition pass combines the live       *)
(* frame, the mask and the snapshot of one processed source frame: the     *)
(* pass draws the snapshot that was in effect when the frame of its mask   *)
(* was processed, and the video content it draws is that same frame.       *)
C32_Step ==
    C32_Delivery =>
       /\ canvas'.frame = <<Head(segQueue).frame>>
       /\ canvas'.snapshot = Head(segQueue).snapshot
       /\ canvas'.liveVideoTime = Head(segQueue).frame.videoTime

C32_SameFrame == [][C32_Step]_vars

(* C33: whenever an initialize() call completes successfully both the face *)
(* detector and the segmenter are ready, under any interleaving of         *)
(* concurrent calls; hence the mounted pipeline never is out of its        *)
(* 'initializing' state, without an error, while a detector is missing.    *)
C33_CompleteMeansReady ==
    /\ \A k \in 1..MaxMounts :
          initCalls[k].pc = "resolved" => (faceLandmarker /\ imageSegmenter)
    /\ (mounted /\ ~isInitializing /\ ~initError)
          => (faceLandmarker /\ imageSegmenter)

(* A logged tick of the enabled overlay that has a face box.               *)
C34_ShownTick ==
    /\ Len(tickLog') = Len(tickLog) + 1
    /\ tickLog'[Len(tickLog')].enabled /\ tickLog'[Len(tickLog')].shown

C34_Snaps(field) ==
    Cardinality({i \in 1..Len(tickLog) : tickLog[i][field]})

(* Once position and scale (rotation) have snapped, a shown tick moves     *)
(* them from the previous smoothed value by the factor of the frame        *)
(* interval, and the flags that record the snap are never cleared.         *)
C34_Step ==
    /\ (C34_ShownTick /\ hasPositionRef) =>
          LET target == lastTick'[1].targetPos[1]
          IN /\ smoothPositionRef'.x = smoothPositionRef.x
                   + TruncDiv((target.pos.x - smoothPositionRef.x) * 699, 1000)
             /\ smoothPositionRef'.y = smoothPositionRef.y
                   + TruncDiv((target.pos.y - smoothPositionRef.y) * 699, 1000)
             /\ smoothScaleRef' = smoothScaleRef
                   + TruncDiv((target.scale - smoothScaleRef) * 632, 1000)
    /\ (C34_ShownTick /\ hasRotationRef /\ lastTick'[1].validMatrix) =>
          /\ smoothQuatRef' = (smoothQuatRef
                + TruncDiv(ShortArc(smoothQuatRef, targetQuatRef') * 699, 1000)) % 360
          /\ groupQuat' = smoothQuatRef'
    /\ hasPositionRef => hasPositionRef'
    /\ hasRotationRef => hasRotationRef'

C34_Once ==
    /\ C34_Snaps("snapPos") <= 1
    /\ C34_Snaps("snapRot") <= 1
    /\ \A i \in 1..Len(tickLog) :
          /\ tickLog[i].snapPos => \A j \in 1..(i - 1) : ~tickLog[j].shown
          /\ tickLog[i].snapRot => ~(\E j \in 1..(i - 1) : tickLog[j].snapRot)

C35_Accepted == lastRestartAtRef' # lastRestartAtRef

(* A step of the mounted hook that is no mount, unmount, stream answer     *)
(* (which takes a pending request away) or passing of time: a resume event *)
(* asked for a restart.                                                    *)
C35_Requested ==
    /\ hookMounted /\ hookMounted'
    /\ dateNow' = dateNow
    /\ streamCount' = streamCount
    /\ requests' >= requests

(* An accepted restart comes at least 1500 ms after the one before it,     *)
(* records its time, and has stopped the stream in use when it leaves the  *)
(* request for the new one: no stream is current and the old one's tracks  *)
(* no longer run.  A request less than 1500 ms after the last accepted     *)
(* restart stops nothing and requests nothing.                             *)
C35_Step ==
    /\ C35_Accepted =>
          /\ dateNow - lastRestartAtRef >= 1500
          /\ lastRestartAtRef' = dateNow
          /\ lastRestartAtRef' - lastRestartAtRef >= 1500
          /\ streamRef' = <<>>
          /\ liveStreams' = liveStreams \ {streamRef[i] : i \in 1..Len(streamRef)}
          /\ requests' = requests + 1
    /\ (C35_Requested /\ dateNow - lastRestartAtRef < 1500) =>
          UNCHANGED <<streamRef, liveStreams, requests, lastRestartAtRef>>

(* C35: camera restarts are throttled. A restart request made less than    *)
(* 1500 ms after the last accepted restart does nothing, so any two        *)
(* accepted restarts are at least 1500 ms apart, and an accepted restart   *)
(* stops the current stream before it requests the new one.                *)
C35_Throttled == [][C35_Step]_vars

(* C35 witness: a second restart was accepted exactly 1500 ms after the    *)
(* first, a request 1499 ms after the first having been ignored: three     *)
(* resume signals, two streams handed out, the second of which was stopped *)
(* by the restart that is now waiting for its stream.                      *)
C35_Witness ==
    /\ hookMounted /\ signals = 3
    /\ lastRestartAtRef = DateStart + 1500 /\ dateNow = lastRestartAtRef
    /\ streamCount = 2 /\ streamRef = <<>> /\ liveStreams = {}
    /\ requests = 1

(* C36: no camera stream is leaked. Under any interleaving of start,       *)
(* restart and unmount with pending stream acquisitions, every acquired    *)
(* stream whose tracks still run is the hook's current stream, and after   *)
(* unmount no acquired stream keeps running tracks.                        *)
C36_NoStreamLeaked ==
    /\ \A s \in 1..streamCount : s \in liveStreams => streamRef = <<s>>
    /\ ~hookMounted => liveStreams = {}

(* A step in which the automatic fallback ended the process.               *)
C37_FallbackExit ==
    /\ host.phase = "running" /\ host'.phase = "exited"
    /\ host'.fallbackReason # "none"

(* A step of one of the four failure handlers.                             *)
C37_FailureEvent ==
    /\ host.phase = "running"
    /\ host' # host
    /\ host'.event \in {"did-fail-load", "render-process-gone",
                        "child-process-gone", "timeout"}
    /\ host'.hostNow = host.hostNow

(* The render mode the settings file holds, "none" without one.            *)
C37_PersistedMode(h) ==
    IF h.settings # <<>> /\ h.settings[1].renderMode # <<>>
    THEN h.settings[1].renderMode[1] ELSE "none"

C37_Step ==
    /\ C37_FallbackExit =>
          /\ host.allowGpuFallback /\ host.renderMode = "gpu"
          /\ host'.renderMode = "cpu" /\ C37_PersistedMode(host') = "cpu"
          /\ host'.relaunch
    /\ (C37_FailureEvent /\ (host.renderMode = "cpu" \/ ~host.allowGpuFallback)) =>
          /\ host'.phase = "running" /\ ~host'.relaunch

(* C37: the automatic GPU fallback relaunches the application only when    *)
(* auto fallback is allowed and the render mode is 'gpu'; render mode      *)
(* 'cpu' is set and is in the settings file when it relaunches; and no     *)
(* failure event (load failure, renderer or GPU process gone, readiness    *)
(* timeout) relaunches while the render mode is 'cpu' or auto fallback is  *)
(* disabled.                                                               *)
C37_FallbackToCpu == [][C37_Step]_vars

(* A step of a handler of the running host named by what it left in event. *)
C38_Handled(event) ==
    /\ host.phase = "running"
    /\ host' # host
    /\ host'.hostNow = host.hostNow
    /\ host'.event = event

(* The renderer became ready: the page finished loading in GPU mode, or    *)
(* app:renderer-ready was received.                                        *)
C38_BecameReady ==
    \/ C38_Handled("did-finish-load") /\ host.renderMode = "gpu"
    \/ C38_Handled("app:renderer-ready")

(* What fallbackToCpu leaves when called with the timer's reason: a        *)
(* relaunch in GPU mode with auto fallback allowed, a refusal otherwise.   *)
C38_Attempted ==
    /\ host'.fallbackReason = "Renderer did not become ready in time."
    /\ (host.allowGpuFallback /\ host.renderMode = "gpu")
          => (host'.phase = "exited" /\ host'.relaunch)

C38_Step ==
    /\ C38_BecameReady =>
          /\ host'.rendererReady
          /\ host'.timers = {} /\ host'.gpuFallbackTimer = <<>>
    /\ C38_Handled("timeout") =>
          /\ \E t \in host.timers :
                /\ host.gpuFallbackTimer = <<t.id>>
                /\ t.due <= host.hostNow
                /\ host.hostNow >= gpuReadyTimeoutMs
          /\ ~host.rendererReady => C38_Attempted
          /\ host.rendererReady => host'.fallbackReason = "none"

(* At most one timer is pending; a pending timer is the one                *)
(* gpuFallbackTimer names and belongs to a renderer that is not ready.     *)
C38_Inv ==
    /\ Cardinality(host.timers) <= 1
    /\ \A t \in host.timers :
          /\ host.gpuFallbackTimer = <<t.id>>
          /\ ~host.rendererReady

(* C38: readiness timeout of the host in GPU mode. At most one readiness   *)
(* timer is pending at any time; when the renderer becomes ready (page     *)
(* finished loading, or app:renderer-ready received) before the 12 s timer *)
(* fires, the timer is cancelled and never causes a fallback; when the     *)
(* timer fires while the renderer is not ready, the fallback is attempted. *)
C38_ReadinessTimer == [][C38_Step]_vars /\ []C38_Inv

(* C38 witness: the first window was closed and a second one created,     *)
(* whose timer took the place of the first; 12 s later it fired with the   *)
(* renderer not ready, and the fallback relaunched the application.        *)
C38_Witness ==
    /\ host.event = "timeout"
    /\ host.fallbackReason = "Renderer did not become ready in time."
    /\ host.phase = "exited" /\ host.relaunch
    /\ host.timerCount = 2 /\ host.gpuFallbackTimer = <<2>>
    /\ ~host.rendererReady
    /\ host.hostNow = 18000

====
